---- MODULE Spec2Model ----
(***************************************************************************)
(* A model of the Boa interpreter core: the lexer's indentation handling   *)
(* (boa/token.h), the recursive-descent parser (boa/parser.h) and the      *)
(* tree-walking evaluator with its environments, calls, try/except/finally *)
(* and module loader (boa/interpreter.h).                                  *)
(*                                                                         *)
(* The evaluator is a big-step function eval(node, env, st) over AST       *)
(* records; C++ exceptions are the "sig" field of its result.  One action  *)
(* is one iteration of exec_body's loop over the top-level statements of   *)
(* the program given to Interpreter::run.                                  *)
(***************************************************************************)
EXTENDS Integers, Sequences, FiniteSets, TLC

\* Bounds of the model.
MaxStmts == 3
MaxSrc == 5

VARIABLES
    envs,           \* every Environment created so far; envs[1] is global_env_
    heap,           \* the shared mutable BoaValue objects (List, Module)
    module_cache_,  \* Interpreter::module_cache_
    output_,        \* Interpreter::output_, the text of the captured output
    capture_output_,\* Interpreter::capture_output_
    cout,           \* the text written to std::cout
    stmt,           \* the top-level statement of the program evaluated last
    pc,             \* the number of top-level statements evaluated so far
    lexer,          \* the Lexer of run(): source_, pos_, at_line_start_, indent_stack_
    tokens,         \* the token vector that Lexer::tokenize fills
    program,        \* the statements of the Program returned by parse_program
    status,         \* where run() is: "lexing", "parsing", "parsed" (about to
                    \* exec), "running" (in exec), "returned", or the exception
                    \* that left it
    result,         \* the value of the last statement evaluated by exec
    error,          \* the message of the exception that left run()
    exec_count,     \* history: per user module, the calls exec(program) of eval_import
    try_entered,    \* history: try statements with a finally body entered
    finally_runs,   \* history: executions of a finally body
    asts,           \* the Programs parsed so far: their number (count), the
                    \* Program that the run() in progress owns (run; 0: none)
                    \* and the ones kept in module_asts_ (modules)
    use_after_free  \* history: a node of a destroyed Program has been read

vars == <<envs, heap, module_cache_, output_, capture_output_, cout, stmt, pc, lexer,
          tokens, program, status, result, error, exec_count, try_entered, finally_runs,
          asts, use_after_free>>

-----------------------------------------------------------------------------
(* Values: struct BoaValue.  Immutable values are held by value; a List or *)
(* a Module is a reference (ref) to its shared storage in the heap.        *)

\* ast: the Program that owns the nodes that the raw pointers of body point to.
NoFunc == [name |-> "", params |-> <<>>, body |-> <<>>, closure |-> 0, ast |-> 0]

\* A C++ double is modelled by the rational num / den it holds, in lowest
\* terms with den > 0; the rounding of the operations to 53 bits is not
\* modelled.
RECURSIVE GCD(_, _)
GCD(a, b) == IF b = 0 THEN a ELSE GCD(b, a % b)

Abs(i) == IF i < 0 THEN -i ELSE i

Double(n, d) ==
    LET g == GCD(Abs(n), Abs(d)) IN
    [num |-> (IF d < 0 THEN -n ELSE n) \div g, den |-> Abs(d) \div g]

\* static_cast<double>(i)
DoubleOfInt(i) == [num |-> i, den |-> 1]

\* static_cast<int64_t>(d): the conversion truncates toward zero.
IntOfDouble(d) == IF d.num < 0 THEN -((-d.num) \div d.den) ELSE d.num \div d.den

DoubleAdd(a, b) == Double(a.num * b.den + b.num * a.den, a.den * b.den)
DoubleSub(a, b) == Double(a.num * b.den - b.num * a.den, a.den * b.den)
DoubleMul(a, b) == Double(a.num * b.num, a.den * b.den)
DoubleDiv(a, b) == Double(a.num * b.den, a.den * b.num)
DoubleLess(a, b) == a.num * b.den < b.num * a.den

BoaValue(t) ==
    [type |-> t, bool_val |-> FALSE, int_val |-> 0, float_val |-> DoubleOfInt(0),
     string_val |-> "", ref |-> 0, func_val |-> NoFunc, builtin_val |-> ""]

make_none == BoaValue("None")
make_bool(b) == [BoaValue("Bool") EXCEPT !.bool_val = b]
make_int(i) == [BoaValue("Int") EXCEPT !.int_val = i]
make_float(d) == [BoaValue("Float") EXCEPT !.float_val = d]
make_string(s) == [BoaValue("String") EXCEPT !.string_val = s]
make_function(name, params, body, closure) ==
    [BoaValue("Function") EXCEPT
        !.func_val = [name |-> name, params |-> params, body |-> body,
                      closure |-> closure, ast |-> 0]]
make_builtin(fn) == [BoaValue("BuiltinFunction") EXCEPT !.builtin_val = fn]
\* The builtin that eval_member makes for l.append: its lambda holds list_ref,
\* here ref.
make_bound_append(r) ==
    [BoaValue("BuiltinFunction") EXCEPT !.builtin_val = "list.append", !.ref = r]
\* A value that lives in the heap: make_list, make_module.
make_ref(t, r) == [BoaValue(t) EXCEPT !.ref = r]

\* The null BoaValuePtr that Environment::get returns for an unbound name.
nullptr == BoaValue("nullptr")

ListCell(elems) ==
    [type |-> "List", list_val |-> elems, dict_val |-> <<>>, name |-> "", members |-> <<>>]
\* dict_val: the entries <<key, value>> in insertion order.
DictCell(entries) ==
    [type |-> "Dict", list_val |-> <<>>, dict_val |-> entries, name |-> "", members |-> <<>>]
ModuleCell(name, members) ==
    [type |-> "Module", list_val |-> <<>>, dict_val |-> <<>>, name |-> name,
     members |-> members]

\* A truthiness under which no dict is falsy.
is_truthy_but_dict(v, h) ==
    CASE v.type = "None" -> FALSE
      [] v.type = "Bool" -> v.bool_val
      [] v.type = "Int" -> v.int_val # 0
      [] v.type = "Float" -> v.float_val # DoubleOfInt(0)
      [] v.type = "String" -> v.string_val # ""
      [] v.type = "List" -> h[v.ref].list_val # <<>>
      [] OTHER -> TRUE

is_truthy(v, h) ==
    CASE v.type = "None" -> FALSE
      [] v.type = "Bool" -> v.bool_val
      [] v.type = "Int" -> v.int_val # 0
      [] v.type = "Float" -> v.float_val # DoubleOfInt(0)
      [] v.type = "String" -> v.string_val # ""
      [] v.type = "List" -> h[v.ref].list_val # <<>>
      [] v.type = "Dict" -> h[v.ref].dict_val # <<>>
      [] OTHER -> TRUE

Digit(d) ==
    CASE d = 0 -> "0" [] d = 1 -> "1" [] d = 2 -> "2" [] d = 3 -> "3"
      [] d = 4 -> "4" [] d = 5 -> "5" [] d = 6 -> "6" [] d = 7 -> "7"
      [] d = 8 -> "8" [] d = 9 -> "9"

RECURSIVE NatToString(_)
NatToString(n) == IF n < 10 THEN Digit(n) ELSE NatToString(n \div 10) \o Digit(n % 10)

\* std::to_string on an integer.
IntToString(i) == IF i < 0 THEN "-" \o NatToString(-i) ELSE NatToString(i)

RECURSIVE Pow10(_)
Pow10(k) == IF k = 0 THEN 1 ELSE 10 * Pow10(k - 1)

\* floor(log10(d)) for d > 0.
RECURSIVE Log10From(_, _)
Log10From(d, e) ==
    IF e >= 0
    THEN (IF d.num < Pow10(e + 1) * d.den THEN e ELSE Log10From(d, e + 1))
    ELSE (IF d.num * Pow10(-e) >= d.den THEN e ELSE Log10From(d, e - 1))

Log10(d) == IF d.num >= d.den THEN Log10From(d, 0) ELSE Log10From(d, -1)

\* f > 0 without its trailing zeros.
RECURSIVE StripZeros(_)
StripZeros(f) == IF f % 10 = 0 THEN StripZeros(f \div 10) ELSE f

RECURSIVE Zeros(_)
Zeros(k) == IF k <= 0 THEN "" ELSE "0" \o Zeros(k - 1)

RECURSIVE NumDigits(_)
NumDigits(n) == IF n < 10 THEN 1 ELSE 1 + NumDigits(n \div 10)

\* operator<<(std::ostream&, double) with the default format: six significant
\* digits, trailing zeros and a trailing point removed.  The magnitudes that
\* the stream prints with an exponent (below 1e-4, from 1e6) are outside the
\* model's numbers.
DoubleToString(d) ==
    IF d.num = 0 THEN "0"
    ELSE LET a == [num |-> Abs(d.num), den |-> d.den]
             e == Log10(a)
             k == 5 - e                 \* decimals printed
             q == (a.num * Pow10(k)) \div a.den
             half == (2 * a.num * Pow10(k)) \div a.den - 2 * q = 1
             tie == half /\ (2 * a.num * Pow10(k)) % a.den = 0
             scaled == IF ~half THEN q ELSE IF tie THEN q + (q % 2) ELSE q + 1
             ip == scaled \div Pow10(k)
             fp == scaled % Pow10(k)
             lead == k - NumDigits(fp)  \* zeros between the point and fp
         IN (IF d.num < 0 THEN "-" ELSE "") \o NatToString(ip)
            \o (IF fp = 0 THEN "" ELSE "." \o Zeros(lead) \o NatToString(StripZeros(fp)))

RECURSIVE to_string(_, _), JoinList(_, _, _), JoinDict(_, _, _)
to_string(v, h) ==
    CASE v.type = "None" -> "none"
      [] v.type = "Bool" -> IF v.bool_val THEN "true" ELSE "false"
      [] v.type = "Int" -> IntToString(v.int_val)
      [] v.type = "Float" -> DoubleToString(v.float_val)
      [] v.type = "String" -> v.string_val
      [] v.type = "List" -> "[" \o JoinList(h[v.ref].list_val, 1, h) \o "]"
      [] v.type = "Dict" -> "{" \o JoinDict(h[v.ref].dict_val, 1, h) \o "}"
      [] v.type = "Function" -> "<function " \o v.func_val.name \o ">"
      [] v.type = "BuiltinFunction" -> "<builtin_function>"
      [] v.type = "Module" -> "<module " \o h[v.ref].name \o ">"

JoinList(elems, i, h) ==
    IF i > Len(elems) THEN ""
    ELSE (IF i > 1 THEN ", " ELSE "")
         \o (IF elems[i].type = "String"
             THEN "\"" \o to_string(elems[i], h) \o "\""
             ELSE to_string(elems[i], h))
         \o JoinList(elems, i + 1, h)

JoinDict(entries, i, h) ==
    IF i > Len(entries) THEN ""
    ELSE (IF i > 1 THEN ", " ELSE "")
         \o to_string(entries[i][1], h) \o ": " \o to_string(entries[i][2], h)
         \o JoinDict(entries, i + 1, h)

value_type_name(t) ==
    CASE t = "None" -> "none" [] t = "Bool" -> "bool" [] t = "Int" -> "int"
      [] t = "Float" -> "float"
      [] t = "String" -> "string" [] t = "List" -> "list" [] t = "Dict" -> "dict"
      [] t = "Function" -> "function"
      [] t = "BuiltinFunction" -> "builtin_function"
      [] t = "Module" -> "module"

-----------------------------------------------------------------------------
(* AST nodes (boa/ast.h): a record per node, k naming the struct.          *)

NullNode == [k |-> "nullptr"]
\* struct NumberLiteral { double value; }: the double is value / den, in
\* lowest terms; NumberLiteral(v) is the node of the integral double v.
NumberLiteralOf(d) == [k |-> "NumberLiteral", value |-> d.num, den |-> d.den]
NumberLiteral(v) == NumberLiteralOf(DoubleOfInt(v))
StringLiteral(s) == [k |-> "StringLiteral", text |-> s]
BoolLiteral(b) == [k |-> "BoolLiteral", flag |-> b]
NoneLiteral == [k |-> "NoneLiteral"]
Identifier(n) == [k |-> "Identifier", name |-> n]
BinaryOp(l, op, r) == [k |-> "BinaryOp", left |-> l, op |-> op, right |-> r]
UnaryOp(op, x) == [k |-> "UnaryOp", op |-> op, operand |-> x]
Assignment(t, op, v) == [k |-> "Assignment", target |-> t, op |-> op, value |-> v]
\* entries: the pairs <<key, value>> of expressions.
DictLiteral(entries) == [k |-> "DictLiteral", entries |-> entries]
ListLiteral(es) == [k |-> "ListLiteral", elements |-> es]
IndexExpr(o, i) == [k |-> "IndexExpr", object |-> o, index |-> i]
MemberAccess(o, m) == [k |-> "MemberAccess", object |-> o, member |-> m]
FunctionCall(c, as) == [k |-> "FunctionCall", callee |-> c, args |-> as]
ExpressionStmt(e) == [k |-> "ExpressionStmt", expr |-> e]
PassStmt == [k |-> "PassStmt"]
ReturnStmt(v) == [k |-> "ReturnStmt", value |-> v]
FnDef(n, ps, b) == [k |-> "FnDef", name |-> n, params |-> ps, body |-> b]
ElifClause(c, b) == [condition |-> c, body |-> b]
IfStmt(c, b, els, e) ==
    [k |-> "IfStmt", condition |-> c, body |-> b, elif_clauses |-> els,
     else_body |-> e]
ForStmt(v, it, b) == [k |-> "ForStmt", var_name |-> v, iterable |-> it, body |-> b]
WhileStmt(c, b) == [k |-> "WhileStmt", condition |-> c, body |-> b]
ImportStmt(ms) == [k |-> "ImportStmt", modules |-> ms]
TryStmt(tb, ev, eb, fb) ==
    [k |-> "TryStmt", try_body |-> tb, except_var |-> ev, except_body |-> eb,
     finally_body |-> fb]

-----------------------------------------------------------------------------
(* class Environment.  An environment is [vars, parent]; parent 0 is the   *)
(* null parent of the global environment.                                  *)

GlobalEnv == 1

Environment(parent) == [vars |-> <<>>, parent |-> parent]

RECURSIVE Environment_get(_, _, _)
Environment_get(es, e, name) ==
    IF name \in DOMAIN es[e].vars THEN es[e].vars[name]
    ELSE IF es[e].parent # 0 THEN Environment_get(es, es[e].parent, name)
    ELSE nullptr

Environment_define(es, e, name, val) ==
    [es EXCEPT ![e].vars = (name :> val) @@ @]

\* The environment on e's parent chain where set finds name; 0 when none does.
RECURSIVE FindBinding(_, _, _)
FindBinding(es, e, name) ==
    IF e = 0 THEN 0
    ELSE IF name \in DOMAIN es[e].vars THEN e
    ELSE FindBinding(es, es[e].parent, name)

\* A set that always writes the current scope: the shadowing rule that
\* Environment::set does not implement.
Environment_set_shadowing(es, e, name, val) == Environment_define(es, e, name, val)

Environment_set(es, e, name, val) ==
    LET found == FindBinding(es, e, name) IN
    IF found # 0 THEN Environment_define(es, found, name, val)
    ELSE Environment_define(es, e, name, val)

-----------------------------------------------------------------------------
(* The interpreter state threaded through evaluation, and the outcome of   *)
(* an evaluation: a value (sig "ok") or a C++ exception in flight.         *)

Ok(st, v) == [st |-> st, val |-> v, sig |-> "ok", msg |-> ""]
BoaRuntimeError(st, m) ==
    [st |-> st, val |-> make_none, sig |-> "BoaRuntimeError", msg |-> m]
ReturnException(st, v) ==
    [st |-> st, val |-> v, sig |-> "ReturnException", msg |-> ""]

\* The native stack is exhausted: the process is killed.
StackOverflow(st) == [st |-> st, val |-> make_none, sig |-> "SIGSEGV", msg |-> ""]

\* The number of nested eval_import calls, each with the frames of exec,
\* exec_body and eval between it and the next, that the native stack holds.
MaxImportDepth == 4

\* make_shared of a value with shared storage: a new heap cell.
Alloc(st, cell) == [st EXCEPT !.heap = Append(@, cell)]

\* The module files under base_dir_: name -> parsed Program (its statements).
\* "m" defines a variable and a function; "bad" raises at its top level;
\* "dep" needs the global x; "a" and "b" import each other and "s" imports
\* itself; "nofile" and every other name have no file.
ModuleFiles ==
    [m |-> << Assignment(Identifier("v"), "Eq", NumberLiteral(1)),
              FnDef("g", <<>>, << ExpressionStmt(Identifier("v")) >>) >>,
     bad |-> << Assignment(Identifier("u"), "Eq", NumberLiteral(1)),
                ExpressionStmt(BinaryOp(NumberLiteral(1), "Slash", NumberLiteral(0))) >>,
     dep |-> << Assignment(Identifier("w"), "Eq", Identifier("x")) >>,
     a |-> << Assignment(Identifier("ca"), "Eq", NumberLiteral(1)),
              ImportStmt(<< "b" >>) >>,
     b |-> << ImportStmt(<< "a" >>) >>,
     s |-> << ImportStmt(<< "s" >>) >>]

-----------------------------------------------------------------------------
(* Arithmetic helpers.                                                     *)

IsNumber(v) == v.type = "Int" \/ v.type = "Float"

\* BoaValue::as_number on a number.
as_number(v) == IF v.type = "Int" THEN DoubleOfInt(v.int_val) ELSE v.float_val

\* Division that rounds toward minus infinity.
FloorDiv(a, b) == a \div b

\* C++ integer division truncates toward zero.
TruncDiv(a, b) ==
    IF (a >= 0) = (b >= 0) THEN (IF a >= 0 THEN a \div b ELSE (-a) \div (-b))
    ELSE -((IF a >= 0 THEN a ELSE -a) \div (IF b >= 0 THEN b ELSE -b))

add(st, l, r) ==
    IF l.type = "String" /\ r.type = "String"
    THEN Ok(st, make_string(l.string_val \o r.string_val))
    ELSE IF l.type = "List" /\ r.type = "List"
    THEN Ok(Alloc(st, ListCell(st.heap[l.ref].list_val \o st.heap[r.ref].list_val)),
            make_ref("List", Len(st.heap) + 1))
    ELSE IF l.type = "Int" /\ r.type = "Int"
    THEN Ok(st, make_int(l.int_val + r.int_val))
    ELSE IF IsNumber(l) /\ IsNumber(r)
    THEN Ok(st, make_float(DoubleAdd(as_number(l), as_number(r))))
    ELSE BoaRuntimeError(st, "Cannot add " \o value_type_name(l.type) \o " and "
                             \o value_type_name(r.type))

subtract(st, l, r) ==
    IF l.type = "Int" /\ r.type = "Int"
    THEN Ok(st, make_int(l.int_val - r.int_val))
    ELSE IF IsNumber(l) /\ IsNumber(r)
    THEN Ok(st, make_float(DoubleSub(as_number(l), as_number(r))))
    ELSE BoaRuntimeError(st, "Cannot subtract " \o value_type_name(l.type) \o " and "
                             \o value_type_name(r.type))

RECURSIVE Repeat(_, _)
Repeat(str, n) == IF n <= 0 THEN "" ELSE str \o Repeat(str, n - 1)

multiply(st, l, r) ==
    IF l.type = "Int" /\ r.type = "Int"
    THEN Ok(st, make_int(l.int_val * r.int_val))
    ELSE IF IsNumber(l) /\ IsNumber(r)
    THEN Ok(st, make_float(DoubleMul(as_number(l), as_number(r))))
    ELSE IF l.type = "String" /\ r.type = "Int"
    THEN Ok(st, make_string(Repeat(l.string_val, r.int_val)))
    ELSE BoaRuntimeError(st, "Cannot multiply " \o value_type_name(l.type) \o " and "
                             \o value_type_name(r.type))

\* The loop of power: while (exp > 0) { if (exp % 2 == 1) result *= base;
\* base *= base; exp /= 2; }.  The operands of the model keep result and base
\* within int64_t.
RECURSIVE power_loop(_, _, _)
power_loop(res, base, exp) ==
    IF exp > 0
    THEN power_loop(IF exp % 2 = 1 THEN res * base ELSE res, base * base, exp \div 2)
    ELSE res

\* A guard of the integer branch that also asks for a base that is not
\* negative.
power_is_int_nonneg(l, r) ==
    l.type = "Int" /\ r.type = "Int" /\ r.int_val >= 0 /\ l.int_val >= 0

\* left->type == Int && right->type == Int && right->int_val >= 0
power_is_int(l, r) == l.type = "Int" /\ r.type = "Int" /\ r.int_val >= 0

\* b multiplied e times; 1 for e = 0.
RECURSIVE IntPow(_, _)
IntPow(b, e) == IF e = 0 THEN 1 ELSE b * IntPow(b, e - 1)

\* A double that is infinite: num / 0.
Infinity == [num |-> 1, den |-> 0]

\* std::pow(x, y) for an exponent y that is integral: x multiplied |y| times,
\* inverted for a negative y (infinite for a zero x).
pow(x, y) ==
    LET e == Abs(y.num)
        p == [num |-> IntPow(x.num, e), den |-> IntPow(x.den, e)]
    IN IF y.num >= 0 THEN p
       ELSE IF p.num = 0 THEN Infinity
       ELSE Double(p.den, p.num)

power(st, l, r) ==
    IF power_is_int(l, r)
    THEN Ok(st, make_int(power_loop(1, l.int_val, r.int_val)))
    ELSE IF IsNumber(l) /\ IsNumber(r)
    THEN Ok(st, make_float(pow(as_number(l), as_number(r))))
    ELSE BoaRuntimeError(st, "Cannot exponentiate " \o value_type_name(l.type))

divide(st, l, r) ==
    IF ~IsNumber(r)
    THEN BoaRuntimeError(st, "Expected numeric value, got " \o value_type_name(r.type))
    ELSE IF as_number(r) = DoubleOfInt(0) THEN BoaRuntimeError(st, "Division by zero")
    ELSE IF l.type = "Int" /\ r.type = "Int"
    THEN Ok(st, make_int(TruncDiv(l.int_val, r.int_val)))
    ELSE IF ~IsNumber(l)
    THEN BoaRuntimeError(st, "Expected numeric value, got " \o value_type_name(l.type))
    ELSE Ok(st, make_float(DoubleDiv(as_number(l), as_number(r))))

\* An equality that compares values of one type only.
values_equal_same_type(a, b) ==
    CASE a.type = "None" /\ b.type = "None" -> TRUE
      [] a.type = "Bool" /\ b.type = "Bool" -> a.bool_val = b.bool_val
      [] a.type = "Int" /\ b.type = "Int" -> a.int_val = b.int_val
      [] a.type = "Float" /\ b.type = "Float" -> a.float_val = b.float_val
      [] a.type = "String" /\ b.type = "String" -> a.string_val = b.string_val
      [] OTHER -> FALSE

values_equal(a, b) ==
    CASE a.type = "None" /\ b.type = "None" -> TRUE
      [] a.type = "Bool" /\ b.type = "Bool" -> a.bool_val = b.bool_val
      [] a.type = "Int" /\ b.type = "Int" -> a.int_val = b.int_val
      [] IsNumber(a) /\ IsNumber(b) -> as_number(a) = as_number(b)
      [] a.type = "String" /\ b.type = "String" -> a.string_val = b.string_val
      [] OTHER -> FALSE

\* compare(a, b) < 0 on numbers; other operands throw.
less(st, a, b) ==
    IF IsNumber(a) /\ IsNumber(b)
    THEN Ok(st, make_bool(DoubleLess(as_number(a), as_number(b))))
    ELSE BoaRuntimeError(st, "Cannot compare " \o value_type_name(a.type) \o " and "
                             \o value_type_name(b.type))

-----------------------------------------------------------------------------
(* Built-in functions (register_builtins).                                 *)

\* A print_output that writes to the buffer whatever the flag is.
print_output_always(st, s) == [st EXCEPT !.output_ = @ \o s]

\* if (capture_output_) output_ << s; else std::cout << s;
print_output(st, s) ==
    IF st.capture_output_ THEN [st EXCEPT !.output_ = @ \o s] ELSE [st EXCEPT !.cout = @ \o s]

RECURSIVE PrintArgs(_, _, _)
PrintArgs(st, args, i) ==
    IF i > Len(args) THEN st
    ELSE PrintArgs(print_output(IF i > 1 THEN print_output(st, " ") ELSE st,
                                to_string(args[i], st.heap)),
                   args, i + 1)

builtin_print(st, args) == Ok(print_output(PrintArgs(st, args, 1), "\n"), make_none)

builtin_len(st, args) ==
    IF Len(args) # 1 THEN BoaRuntimeError(st, "len: expected 1 argument")
    ELSE IF args[1].type = "String" THEN Ok(st, make_int(Len(args[1].string_val)))
    ELSE IF args[1].type = "List"
    THEN Ok(st, make_int(Len(st.heap[args[1].ref].list_val)))
    ELSE IF args[1].type = "Dict"
    THEN Ok(st, make_int(Len(st.heap[args[1].ref].dict_val)))
    ELSE BoaRuntimeError(st, "len: unsupported type " \o value_type_name(args[1].type))

builtin_str(st, args) ==
    IF Len(args) # 1 THEN BoaRuntimeError(st, "str: expected 1 argument")
    ELSE Ok(st, make_string(to_string(args[1], st.heap)))

\* The characters of the strings that int() and float() are applied to.
StringAlphabet == {"0", "7", "x", "-"}
MaxString == 3

RECURSIVE Concat(_)
Concat(chars) == IF chars = <<>> THEN "" ELSE chars[1] \o Concat(Tail(chars))

StringChars == UNION {[1..n -> StringAlphabet] : n \in 0..MaxString}

\* The characters of each string over StringAlphabet, tabulated once.
ExplodeTable ==
    [s \in { Concat(chars) : chars \in StringChars } |->
        CHOOSE chars \in StringChars : Concat(chars) = s]

\* The characters of the std::string s.
Explode(s) == ExplodeTable[s]

isdigit(c) == c \in {"0", "1", "2", "3", "4", "5", "6", "7", "8", "9"}

DigitValue(c) ==
    CASE c = "0" -> 0 [] c = "1" -> 1 [] c = "2" -> 2 [] c = "3" -> 3 [] c = "4" -> 4
      [] c = "5" -> 5 [] c = "6" -> 6 [] c = "7" -> 7 [] c = "8" -> 8 [] c = "9" -> 9

\* The decimal digits of chars from position i: the number they spell, the
\* count of digits, and the position that follows them.
RECURSIVE stod_digits(_, _, _, _)
stod_digits(chars, i, acc, n) ==
    IF i <= Len(chars) /\ isdigit(chars[i])
    THEN stod_digits(chars, i + 1, 10 * acc + DigitValue(chars[i]), n + 1)
    ELSE [val |-> acc, count |-> n, next |-> i]

\* std::stod on a lexeme of read_number: digits, an optional fraction and an
\* optional exponent, read as the decimal number they spell.  The mantissa
\* mant is scaled by ten to the exponent ex, negative when neg.
stod_scale(mant, neg, ex) ==
    IF neg THEN DoubleDiv(mant, DoubleOfInt(Pow10(ex)))
    ELSE DoubleMul(mant, DoubleOfInt(Pow10(ex)))

\* The exponent part, if any, at position i of chars.
stod_exponent(chars, mant, i) ==
    IF i <= Len(chars) /\ chars[i] \in {"e", "E"}
    THEN IF i < Len(chars) /\ chars[i + 1] \in {"+", "-"}
         THEN stod_scale(mant, chars[i + 1] = "-", stod_digits(chars, i + 2, 0, 0).val)
         ELSE stod_scale(mant, FALSE, stod_digits(chars, i + 1, 0, 0).val)
    ELSE mant

\* The mantissa of integral digits ip and fraction digits fp.
stod_fraction(chars, ip, fp) ==
    stod_exponent(chars, Double(ip.val * Pow10(fp.count) + fp.val, Pow10(fp.count)), fp.next)

stod_mantissa(chars, ip) ==
    IF ip.next <= Len(chars) /\ chars[ip.next] = "."
    THEN stod_fraction(chars, ip, stod_digits(chars, ip.next + 1, 0, 0))
    ELSE stod_exponent(chars, DoubleOfInt(ip.val), ip.next)

stod(chars) == stod_mantissa(chars, stod_digits(chars, 1, 0, 0))

RECURSIVE skip_space(_, _)
skip_space(chars, i) ==
    IF i <= Len(chars) /\ chars[i] = " " THEN skip_space(chars, i + 1) ELSE i

\* std::stoll: leading blanks, an optional sign, then the longest run of
\* digits; what follows the digits is ignored.  ok is false when there is no
\* digit (std::invalid_argument).  The strings of the model are too short
\* to leave the range of int64_t (std::out_of_range).
\* A conversion that stops after the first digit.
stoll_one_digit(chars) ==
    LET i == skip_space(chars, 1)
        d == stod_digits(SubSeq(chars, 1, IF i < Len(chars) THEN i ELSE Len(chars)), i, 0, 0)
    IN [ok |-> d.count > 0, val |-> d.val]

stoll(chars) ==
    LET i == skip_space(chars, 1)
        signed == i <= Len(chars) /\ chars[i] \in {"+", "-"}
        d == stod_digits(chars, IF signed THEN i + 1 ELSE i, 0, 0)
    IN [ok |-> d.count > 0,
        val |-> IF signed /\ chars[i] = "-" THEN -d.val ELSE d.val]

builtin_int(st, args) ==
    IF Len(args) # 1 THEN BoaRuntimeError(st, "int: expected 1 argument")
    ELSE LET a == args[1] IN
         CASE a.type = "Int" -> Ok(st, a)
           [] a.type = "Float" -> Ok(st, make_int(IntOfDouble(a.float_val)))
           [] a.type = "String" ->
                LET r == stoll(Explode(a.string_val)) IN
                IF r.ok THEN Ok(st, make_int(r.val))
                ELSE BoaRuntimeError(st, "int: cannot convert '" \o a.string_val
                                         \o "' to int")
           [] a.type = "Bool" -> Ok(st, make_int(IF a.bool_val THEN 1 ELSE 0))
           [] OTHER -> BoaRuntimeError(st, "int: unsupported type "
                                           \o value_type_name(a.type))

\* float(), for the arguments that are not strings.
builtin_float(st, args) ==
    IF Len(args) # 1 THEN BoaRuntimeError(st, "float: expected 1 argument")
    ELSE LET a == args[1] IN
         CASE a.type = "Float" -> Ok(st, a)
           [] a.type = "Int" -> Ok(st, make_float(DoubleOfInt(a.int_val)))
           [] a.type = "Bool" -> Ok(st, make_float(DoubleOfInt(IF a.bool_val THEN 1 ELSE 0)))
           [] a.type \notin {"String"} ->
                BoaRuntimeError(st, "float: unsupported type " \o value_type_name(a.type))

\* A push_back that makes a new list and leaves the one at r alone.
push_back_copy(st, r, v) == Alloc(st, ListCell(Append(st.heap[r].list_val, v)))

\* list_val.push_back(v) on the list at heap cell r.
push_back(st, r, v) == [st EXCEPT !.heap[r].list_val = Append(@, v)]

builtin_append(st, args) ==
    IF Len(args) # 2 THEN BoaRuntimeError(st, "append: expected 2 arguments (list, value)")
    ELSE IF args[1].type # "List"
    THEN BoaRuntimeError(st, "append: first argument must be a list")
    ELSE Ok(push_back(st, args[1].ref, args[2]), make_none)

\* The lambda of l.append.
bound_append(list_ref, st, args) ==
    IF Len(args) # 1 THEN BoaRuntimeError(st, "append: expected 1 argument")
    ELSE Ok(push_back(st, list_ref, args[1]), make_none)

builtin_type(st, args) ==
    IF Len(args) # 1 THEN BoaRuntimeError(st, "type: expected 1 argument")
    ELSE Ok(st, make_string(value_type_name(args[1].type)))

call_builtin(fn, st, args) ==
    CASE fn = "print" -> builtin_print(st, args)
      [] fn = "len" -> builtin_len(st, args)
      [] fn = "str" -> builtin_str(st, args)
      [] fn = "type" -> builtin_type(st, args)
      [] fn = "int" -> builtin_int(st, args)
      [] fn = "float" -> builtin_float(st, args)
      [] fn = "append" -> builtin_append(st, args)

\* callee->builtin_val(args)
call_builtin_val(callee, st, args) ==
    IF callee.builtin_val = "list.append" THEN bound_append(callee.ref, st, args)
    ELSE call_builtin(callee.builtin_val, st, args)

-----------------------------------------------------------------------------
(* AST evaluation: Interpreter::eval and the eval_* methods.               *)

RECURSIVE eval(_, _, _), exec_from(_, _, _, _), eval_binary(_, _, _),
          eval_unary(_, _, _), eval_assignment(_, _, _), eval_list(_, _, _),
          eval_args(_, _, _, _), eval_member(_, _, _), eval_call(_, _, _),
          eval_return(_, _, _), eval_if(_, _, _), eval_elifs(_, _, _, _),
          eval_for(_, _, _), for_from(_, _, _, _, _), eval_while(_, _, _),
          while_loop(_, _, _), eval_import(_, _, _), import_from(_, _, _, _),
          eval_try(_, _, _), eval_dict(_, _, _), eval_index(_, _, _),
          assign_index(_, _, _, _)

\* exec_body / exec_body_raw: the statements in order, the value of the last;
\* an exception ends the loop.
exec_from(stmts, i, env, acc) ==
    IF i > Len(stmts) THEN acc
    ELSE LET r == eval(stmts[i], env, acc.st) IN
         IF r.sig # "ok" THEN r ELSE exec_from(stmts, i + 1, env, r)

exec_body(stmts, env, st) == exec_from(stmts, 1, env, Ok(st, make_none))

exec(statements, st) == exec_body(statements, GlobalEnv, st)

\* v == static_cast<int64_t>(v) holds exactly for the integral doubles; the
\* literals of the model are far inside the range -9e18 .. 9e18.
eval_number(n) ==
    LET v == [num |-> n.value, den |-> n.den] IN
    IF v = DoubleOfInt(IntOfDouble(v)) THEN make_int(IntOfDouble(v))
    ELSE make_float(v)

eval_identifier(n, env, st) ==
    LET val == Environment_get(st.envs, env, n.name) IN
    IF val = nullptr
    THEN BoaRuntimeError(st, "Undefined variable '" \o n.name \o "'")
    ELSE Ok(st, val)

\* An eval_fndef that binds by Environment::set, the rule of assignment.
eval_fndef_set(n, env, st) ==
    LET fn == [make_function(n.name, n.params, n.body, env)
                   EXCEPT !.func_val.ast = st.cur_ast] IN
    Ok([st EXCEPT !.envs = Environment_set(@, env, n.name, fn)], fn)

eval_fndef(n, env, st) ==
    LET fn == [make_function(n.name, n.params, n.body, env)
                   EXCEPT !.func_val.ast = st.cur_ast] IN
    Ok([st EXCEPT !.envs = Environment_define(@, env, n.name, fn)], fn)

eval(node, env, st) ==
    CASE node.k = "nullptr" -> Ok(st, make_none)
      [] node.k = "NumberLiteral" -> Ok(st, eval_number(node))
      [] node.k = "StringLiteral" -> Ok(st, make_string(node.text))
      [] node.k = "BoolLiteral" -> Ok(st, make_bool(node.flag))
      [] node.k = "NoneLiteral" -> Ok(st, make_none)
      [] node.k = "Identifier" -> eval_identifier(node, env, st)
      [] node.k = "BinaryOp" -> eval_binary(node, env, st)
      [] node.k = "UnaryOp" -> eval_unary(node, env, st)
      [] node.k = "Assignment" -> eval_assignment(node, env, st)
      [] node.k = "ListLiteral" -> eval_list(node, env, st)
      [] node.k = "DictLiteral" -> eval_dict(node, env, st)
      [] node.k = "IndexExpr" -> eval_index(node, env, st)
      [] node.k = "MemberAccess" -> eval_member(node, env, st)
      [] node.k = "FunctionCall" -> eval_call(node, env, st)
      [] node.k = "ExpressionStmt" -> eval(node.expr, env, st)
      [] node.k = "FnDef" -> eval_fndef(node, env, st)
      [] node.k = "ReturnStmt" -> eval_return(node, env, st)
      [] node.k = "IfStmt" -> eval_if(node, env, st)
      [] node.k = "ForStmt" -> eval_for(node, env, st)
      [] node.k = "WhileStmt" -> eval_while(node, env, st)
      [] node.k = "ImportStmt" -> eval_import(node, env, st)
      [] node.k = "TryStmt" -> eval_try(node, env, st)
      [] node.k = "PassStmt" -> Ok(st, make_none)
      [] OTHER -> BoaRuntimeError(st, "Unknown AST node")

\* The switch of eval_binary on the operator, both operands evaluated.
apply_binary(op, st, left, right) ==
    CASE op = "Plus" -> add(st, left, right)
      [] op = "Minus" -> subtract(st, left, right)
      [] op = "Star" -> multiply(st, left, right)
      [] op = "Slash" -> divide(st, left, right)
      [] op = "DoubleStar" -> power(st, left, right)
      [] op = "EqEq" -> Ok(st, make_bool(values_equal(left, right)))
      [] op = "BangEq" -> Ok(st, make_bool(~values_equal(left, right)))
      [] op = "Less" -> less(st, left, right)
      [] op = "And" -> Ok(st, IF is_truthy(left, st.heap) THEN right ELSE left)
      [] op = "Or" -> Ok(st, IF is_truthy(left, st.heap) THEN left ELSE right)
      [] OTHER -> BoaRuntimeError(st, "Unknown binary operator")

eval_binary(n, env, st) ==
    LET left == eval(n.left, env, st) IN
    IF left.sig # "ok" THEN left
    ELSE LET right == eval(n.right, env, left.st) IN
         IF right.sig # "ok" THEN right
         ELSE apply_binary(n.op, right.st, left.val, right.val)

eval_unary(n, env, st) ==
    LET val == eval(n.operand, env, st) IN
    IF val.sig # "ok" THEN val
    ELSE CASE n.op = "Minus" ->
                IF val.val.type = "Int" THEN Ok(val.st, make_int(-val.val.int_val))
                ELSE IF val.val.type = "Float"
                THEN Ok(val.st, make_float(DoubleSub(DoubleOfInt(0), val.val.float_val)))
                ELSE BoaRuntimeError(val.st, "Cannot negate "
                                             \o value_type_name(val.val.type))
           [] n.op = "Not" -> Ok(val.st, make_bool(~is_truthy(val.val, val.st.heap)))
           [] OTHER -> BoaRuntimeError(val.st, "Unknown unary operator")

\* eval_assignment, for an Identifier target.
\* The member branch of eval_assignment: obj.member = val on a module.
assign_member(n, env, st, val) ==
    LET obj == eval(n.target.object, env, st) IN
    IF obj.sig # "ok" THEN obj
    ELSE IF obj.val.type = "Module"
    THEN Ok([obj.st EXCEPT !.heap[obj.val.ref].members = (n.target.member :> val) @@ @],
            val)
    ELSE BoaRuntimeError(obj.st, "Cannot set member on " \o value_type_name(obj.val.type))

eval_assignment(n, env, st) ==
    LET val == eval(n.value, env, st) IN
    IF val.sig # "ok" THEN val
    ELSE IF n.target.k = "Identifier"
    THEN IF n.op = "Eq"
         THEN Ok([val.st EXCEPT !.envs = Environment_set(@, env, n.target.name, val.val)],
                 val.val)
         ELSE LET existing == Environment_get(val.st.envs, env, n.target.name) IN
              IF existing = nullptr
              THEN BoaRuntimeError(val.st, "Undefined variable '" \o n.target.name \o "'")
              ELSE LET res == CASE n.op = "PlusEq" -> add(val.st, existing, val.val)
                                [] n.op = "MinusEq" -> subtract(val.st, existing, val.val)
                                [] n.op = "StarEq" -> multiply(val.st, existing, val.val)
                                [] n.op = "SlashEq" -> divide(val.st, existing, val.val)
                                [] OTHER -> BoaRuntimeError(val.st, "Unknown assignment operator")
                   IN IF res.sig # "ok" THEN res
                      ELSE Ok([res.st EXCEPT !.envs =
                                  Environment_set(@, env, n.target.name, res.val)],
                              val.val)
    ELSE IF n.target.k = "IndexExpr" THEN assign_index(n, env, val.st, val.val)
    ELSE IF n.target.k = "MemberAccess" THEN assign_member(n, env, val.st, val.val)
    ELSE BoaRuntimeError(val.st, "Invalid assignment target")

\* An index that is not counted from the end when negative.
list_index_no_wrap(i, n) == i

\* The position of the list of size n that index i addresses, counted from 0:
\* if (i < 0) i += size.
list_index(i, n) == IF i < 0 THEN i + n ELSE i

\* The first entry of a dict whose key equals index, 0 when there is none.
\* A scan that finds no entry.
dict_find_absent(entries, index) == 0

\* A scan that stops at the last entry whose key equals index.
dict_find_last(entries, index) ==
    IF \E j \in DOMAIN entries : values_equal(entries[j][1], index)
    THEN CHOOSE j \in DOMAIN entries :
            /\ values_equal(entries[j][1], index)
            /\ \A m \in (j + 1)..Len(entries) : ~values_equal(entries[m][1], index)
    ELSE 0

dict_find(entries, index) ==
    IF \E j \in DOMAIN entries : values_equal(entries[j][1], index)
    THEN CHOOSE j \in DOMAIN entries :
            /\ values_equal(entries[j][1], index)
            /\ \A m \in 1..(j - 1) : ~values_equal(entries[m][1], index)
    ELSE 0

\* The index-assignment branch of eval_assignment, the value val evaluated:
\* a[i] = v, whatever the assignment operator.
assign_index(n, env, st, val) ==
    LET obj == eval(n.target.object, env, st) IN
    IF obj.sig # "ok" THEN obj
    ELSE LET index == eval(n.target.index, env, obj.st) IN
    IF index.sig # "ok" THEN index
    ELSE LET h == index.st.heap IN
    CASE obj.val.type = "List" ->
           IF ~IsNumber(index.val)
           THEN BoaRuntimeError(index.st, "Expected numeric value, got "
                                          \o value_type_name(index.val.type))
           ELSE LET size == Len(h[obj.val.ref].list_val)
                    i == list_index(IntOfDouble(as_number(index.val)), size)
                IN IF i < 0 \/ i >= size THEN BoaRuntimeError(index.st, "Index out of range")
                   ELSE Ok([index.st EXCEPT !.heap[obj.val.ref].list_val[i + 1] = val], val)
      [] obj.val.type = "Dict" ->
           LET j == dict_find(h[obj.val.ref].dict_val, index.val) IN
           IF j # 0 THEN Ok([index.st EXCEPT !.heap[obj.val.ref].dict_val[j][2] = val], val)
           ELSE Ok([index.st EXCEPT !.heap[obj.val.ref].dict_val =
                                        Append(@, << index.val, val >>)], val)
      [] OTHER -> BoaRuntimeError(index.st, "Cannot index " \o value_type_name(obj.val.type))

eval_index(n, env, st) ==
    LET obj == eval(n.object, env, st) IN
    IF obj.sig # "ok" THEN obj
    ELSE LET index == eval(n.index, env, obj.st) IN
    IF index.sig # "ok" THEN index
    ELSE LET h == index.st.heap IN
    CASE obj.val.type = "List" ->
           IF ~IsNumber(index.val)
           THEN BoaRuntimeError(index.st, "Expected numeric value, got "
                                          \o value_type_name(index.val.type))
           ELSE LET size == Len(h[obj.val.ref].list_val)
                    i == list_index(IntOfDouble(as_number(index.val)), size)
                IN IF i < 0 \/ i >= size THEN BoaRuntimeError(index.st, "Index out of range")
                   ELSE Ok(index.st, h[obj.val.ref].list_val[i + 1])
      [] obj.val.type = "String" ->
           IF ~IsNumber(index.val)
           THEN BoaRuntimeError(index.st, "Expected numeric value, got "
                                          \o value_type_name(index.val.type))
           ELSE LET chars == Explode(obj.val.string_val)
                    i == list_index(IntOfDouble(as_number(index.val)), Len(chars))
                IN IF i < 0 \/ i >= Len(chars)
                   THEN BoaRuntimeError(index.st, "String index out of range")
                   ELSE Ok(index.st, make_string(chars[i + 1]))
      [] obj.val.type = "Dict" ->
           LET j == dict_find(h[obj.val.ref].dict_val, index.val) IN
           IF j # 0 THEN Ok(index.st, h[obj.val.ref].dict_val[j][2])
           ELSE BoaRuntimeError(index.st, "Key not found in dict")
      [] OTHER -> BoaRuntimeError(index.st, "Cannot index " \o value_type_name(obj.val.type))

\* The values of exprs[i..], left to right; an exception ends the loop.
eval_args(exprs, i, env, acc) ==
    IF i > Len(exprs) THEN acc
    ELSE LET r == eval(exprs[i], env, acc.st) IN
         IF r.sig # "ok" THEN r
         ELSE eval_args(exprs, i + 1, env,
                        [st |-> r.st, val |-> Append(acc.val, r.val), sig |-> "ok",
                         msg |-> ""])

eval_list(n, env, st) ==
    LET elems == eval_args(n.elements, 1, env, Ok(st, <<>>)) IN
    IF elems.sig # "ok" THEN elems
    ELSE Ok(Alloc(elems.st, ListCell(elems.val)),
            make_ref("List", Len(elems.st.heap) + 1))

\* The entries are evaluated in order, each key before its value.
eval_dict(n, env, st) ==
    LET flat == [i \in 1..(2 * Len(n.entries)) |-> n.entries[(i + 1) \div 2][2 - (i % 2)]]
        vals == eval_args(flat, 1, env, Ok(st, <<>>))
    IN IF vals.sig # "ok" THEN vals
       ELSE Ok(Alloc(vals.st, DictCell([j \in 1..Len(n.entries) |->
                                          << vals.val[2 * j - 1], vals.val[2 * j] >>])),
               make_ref("Dict", Len(vals.st.heap) + 1))

eval_member(n, env, st) ==
    LET obj == eval(n.object, env, st) IN
    IF obj.sig # "ok" THEN obj
    ELSE IF obj.val.type = "Module"
    THEN LET mod == obj.st.heap[obj.val.ref] IN
         IF n.member \in DOMAIN mod.members THEN Ok(obj.st, mod.members[n.member])
         ELSE BoaRuntimeError(obj.st, "Module '" \o mod.name \o "' has no member '"
                                      \o n.member \o "'")
    ELSE IF obj.val.type = "List" /\ n.member = "append"
    THEN Ok(obj.st, make_bound_append(obj.val.ref))
    ELSE IF obj.val.type = "List" /\ n.member = "length"
    THEN Ok(obj.st, make_int(Len(obj.st.heap[obj.val.ref].list_val)))
    ELSE BoaRuntimeError(obj.st, "Cannot access member '" \o n.member \o "' on "
                                 \o value_type_name(obj.val.type))

\* fn_env with the parameters defined in it.
RECURSIVE DefineParams(_, _, _, _, _)
DefineParams(es, e, params, args, i) ==
    IF i > Len(params) THEN es
    ELSE DefineParams(Environment_define(es, e, params[i], args[i]), e, params, args, i + 1)

\* An arity message that names the two counts in the opposite order.
arity_message_swapped(fn, args) ==
    "Function '" \o fn.name \o "' expected " \o IntToString(Len(args))
        \o " arguments, got " \o IntToString(Len(fn.params))

\* The message of the error that eval_call throws on an arity mismatch.
arity_message(fn, args) ==
    "Function '" \o fn.name \o "' expected " \o IntToString(Len(fn.params))
        \o " arguments, got " \o IntToString(Len(args))

\* A call environment whose parent is the global environment.
make_fn_env_global(fn) == Environment(GlobalEnv)

\* std::make_shared<Environment>(fn.closure)
make_fn_env(fn) == Environment(fn.closure)

\* The call of a Function value once the callee and the arguments are evaluated.
\* The Program id is alive: its nodes have not been destroyed.  The Program of
\* run() and the Program of an eval_import in progress are locals; a module's
\* Program is moved to module_asts_ once the module has been executed.
Alive(st, id) == id = st.asts.run \/ id \in st.importing \/ id \in st.asts.modules

\* Control is back in the code that st was executing.
Resume(st1, st) == [st1 EXCEPT !.cur_ast = st.cur_ast, !.importing = st.importing]

call_function(fn, args, st) ==
    IF Len(args) # Len(fn.params)
    THEN BoaRuntimeError(st, arity_message(fn, args))
    ELSE LET fn_env == Len(st.envs) + 1
             st1 == [st EXCEPT !.envs =
                        DefineParams(Append(@, make_fn_env(fn)), fn_env,
                                     fn.params, args, 1),
                               !.cur_ast = fn.ast,
                               !.use_after_free = @ \/ ~Alive(st, fn.ast)]
             r == exec_body(fn.body, fn_env, st1)
         IN IF r.sig = "ReturnException" THEN Ok(Resume(r.st, st), r.val)
            ELSE [r EXCEPT !.st = Resume(r.st, st)]

eval_call(n, env, st) ==
    LET callee == eval(n.callee, env, st) IN
    IF callee.sig # "ok" THEN callee
    ELSE LET args == eval_args(n.args, 1, env, Ok(callee.st, <<>>)) IN
         IF args.sig # "ok" THEN args
         ELSE IF callee.val.type = "BuiltinFunction"
         THEN call_builtin_val(callee.val, args.st, args.val)
         ELSE IF callee.val.type = "Function"
         THEN call_function(callee.val.func_val, args.val, args.st)
         ELSE BoaRuntimeError(args.st, "Object is not callable")

\* A ret that drops its value.
eval_return_none(n, env, st) == ReturnException(st, make_none)

eval_return(n, env, st) ==
    IF n.value.k # "nullptr"
    THEN LET val == eval(n.value, env, st) IN
         IF val.sig # "ok" THEN val ELSE ReturnException(val.st, val.val)
    ELSE ReturnException(st, make_none)

eval_elifs(n, i, env, st) ==
    IF i > Len(n.elif_clauses)
    THEN IF n.else_body # <<>> THEN exec_body(n.else_body, env, st)
         ELSE Ok(st, make_none)
    ELSE LET c == eval(n.elif_clauses[i].condition, env, st) IN
         IF c.sig # "ok" THEN c
         ELSE IF is_truthy(c.val, c.st.heap)
         THEN exec_body(n.elif_clauses[i].body, env, c.st)
         ELSE eval_elifs(n, i + 1, env, c.st)

eval_if(n, env, st) ==
    LET c == eval(n.condition, env, st) IN
    IF c.sig # "ok" THEN c
    ELSE IF is_truthy(c.val, c.st.heap) THEN exec_body(n.body, env, c.st)
    ELSE eval_elifs(n, 1, env, c.st)

\* A loop that defines its variable in the current environment.
RECURSIVE for_from_define(_, _, _, _, _)
for_from_define(n, ref, i, env, acc) ==
    IF i > Len(acc.st.heap[ref].list_val) THEN acc
    ELSE LET st1 == [acc.st EXCEPT !.envs =
                        Environment_define(@, env, n.var_name, acc.st.heap[ref].list_val[i])]
             r == exec_body(n.body, env, st1)
         IN IF r.sig # "ok" THEN r ELSE for_from_define(n, ref, i + 1, env, r)

\* The loop of eval_for over the elements of the list at heap cell ref.
for_from(n, ref, i, env, acc) ==
    IF i > Len(acc.st.heap[ref].list_val) THEN acc
    ELSE LET st1 == [acc.st EXCEPT !.envs =
                        Environment_set(@, env, n.var_name, acc.st.heap[ref].list_val[i])]
             r == exec_body(n.body, env, st1)
         IN IF r.sig = "BreakException" THEN Ok(r.st, acc.val)
            ELSE IF r.sig = "ContinueException"
            THEN for_from(n, ref, i + 1, env, Ok(r.st, acc.val))
            ELSE IF r.sig # "ok" THEN r
            ELSE for_from(n, ref, i + 1, env, r)

eval_for(n, env, st) ==
    LET iterable == eval(n.iterable, env, st) IN
    IF iterable.sig # "ok" THEN iterable
    ELSE IF iterable.val.type # "List"
    THEN BoaRuntimeError(iterable.st, "for: can only iterate over lists")
    ELSE for_from(n, iterable.val.ref, 1, env, Ok(iterable.st, make_none))

while_loop(n, env, acc) ==
    LET c == eval(n.condition, env, acc.st) IN
    IF c.sig # "ok" THEN c
    ELSE IF ~is_truthy(c.val, c.st.heap) THEN [acc EXCEPT !.st = c.st]
    ELSE LET r == exec_body(n.body, env, c.st) IN
         IF r.sig = "BreakException" THEN Ok(r.st, acc.val)
         ELSE IF r.sig = "ContinueException" THEN while_loop(n, env, Ok(r.st, acc.val))
         ELSE IF r.sig # "ok" THEN r
         ELSE while_loop(n, env, r)

eval_while(n, env, st) == while_loop(n, env, Ok(st, make_none))

\* A cache in which no module is ever found.
cache_miss(st, mod_name) == nullptr

\* module_cache_.find(mod_name): the cached Module, nullptr for end().
cache_find(st, mod_name) ==
    IF mod_name \in DOMAIN st.module_cache_ THEN st.module_cache_[mod_name] ELSE nullptr

\* The loop of eval_import over the module names of the statement.
import_from(mods, i, env, st) ==
    IF i > Len(mods) THEN Ok(st, make_none)
    ELSE IF cache_find(st, mods[i]) # nullptr
    THEN import_from(mods, i + 1, env,
                     [st EXCEPT !.envs = Environment_define(@, env, mods[i],
                                                            cache_find(st, mods[i]))])
    ELSE IF mods[i] \notin DOMAIN ModuleFiles
    THEN BoaRuntimeError(st, "Cannot find module '" \o mods[i] \o "' (looked in ./"
                             \o mods[i] \o ".boa)")
    ELSE IF Cardinality(st.importing) >= MaxImportDepth THEN StackOverflow(st)
    ELSE LET mod_env == Len(st.envs) + 1
             ast == st.asts.count + 1
             st1 == [st EXCEPT !.envs = Append(@, Environment(GlobalEnv)),
                               !.exec_count[mods[i]] = @ + 1,
                               !.asts.count = ast,
                               !.importing = @ \cup {ast},
                               !.cur_ast = ast]
             r == exec(ModuleFiles[mods[i]], st1)
         IN IF r.sig # "ok" THEN [r EXCEPT !.st = Resume(r.st, st)]
            ELSE LET members == r.st.envs[mod_env].vars
                     module == make_ref("Module", Len(r.st.heap) + 1)
                     st2 == Alloc(Resume(r.st, st), ModuleCell(mods[i], members))
                 IN import_from(mods, i + 1, env,
                        [st2 EXCEPT !.module_cache_ = (mods[i] :> module) @@ @,
                                    !.asts.modules = @ \cup {ast},
                                    !.envs = Environment_define(@, env, mods[i], module)])

eval_import(n, env, st) == import_from(n.modules, 1, env, st)

\* exec_body(n->finally_body, env) inside a handler of eval_try.
run_finally(n, env, st) ==
    exec_body(n.finally_body, env, [st EXCEPT !.finally_runs = @ + 1])

\* A handler that binds the except variable in the current environment only.
catch_bind_local(n, env, st, what) ==
    IF n.except_var # ""
    THEN [st EXCEPT !.envs = Environment_define(@, env, n.except_var, make_string(what))]
    ELSE st

\* The head of the handler catch (BoaRuntimeError& e) of eval_try:
\* env->set(n->except_var, make_string(e.what())) when the variable is named.
catch_bind(n, env, st, what) ==
    IF n.except_var # ""
    THEN [st EXCEPT !.envs = Environment_set(@, env, n.except_var, make_string(what))]
    ELSE st

eval_try(n, env, st) ==
    LET st0 == IF n.finally_body # <<>> THEN [st EXCEPT !.try_entered = @ + 1] ELSE st
        body == exec_body(n.try_body, env, st0)
    IN
    IF body.sig # "BoaRuntimeError" THEN body
    ELSE IF n.except_body # <<>>
    THEN LET st1 == catch_bind(n, env, body.st, body.msg)
             res == exec_body(n.except_body, env, st1)
         IN IF res.sig # "ok" THEN res
            ELSE IF n.finally_body # <<>>
            THEN LET fin == run_finally(n, env, res.st) IN
                 IF fin.sig # "ok" THEN fin ELSE [res EXCEPT !.st = fin.st]
            ELSE res
    ELSE IF n.finally_body # <<>>
    THEN LET fin == run_finally(n, env, body.st) IN
         IF fin.sig # "ok" THEN fin ELSE [body EXCEPT !.st = fin.st]
    ELSE body

-----------------------------------------------------------------------------
(* The lexer (boa/token.h).  A source is a sequence of one-character       *)
(* strings; a token is its type and text (lines and columns are left out). *)

Token(type, value) == [type |-> type, value |-> value]

\* Lexer(source): pos_ counts from 0 as in the source.
Lexer(source) ==
    [source_ |-> source, pos_ |-> 0, at_line_start_ |-> TRUE, indent_stack_ |-> << 0 >>]

at_end(lx) == lx.pos_ >= Len(lx.source_)
peek(lx) == lx.source_[lx.pos_ + 1]
advance(lx) == [lx EXCEPT !.pos_ = @ + 1]

\* std::isalpha, on the letters that the sources of this model are made of.
isalpha(c) ==
    c \in {"x", "y", "i", "f", "a", "b", "c", "e", "k", "n", "o", "r", "t", "u"}

\* A number token: value is the raw lexeme; chars are its characters, which
\* std::stod reads one by one.
NumberToken(type, chars, value) == [type |-> type, value |-> value, chars |-> chars]

keywords ==
    [w \in {"fn", "imp", "ret", "if", "elif", "else", "for", "in", "while", "try",
            "except", "finally", "pass", "and", "or", "not", "true", "false", "none",
            "class"} |->
        CASE w = "fn" -> "Fn" [] w = "imp" -> "Imp" [] w = "ret" -> "Ret"
          [] w = "if" -> "If" [] w = "elif" -> "Elif" [] w = "else" -> "Else"
          [] w = "for" -> "For" [] w = "in" -> "In" [] w = "while" -> "While"
          [] w = "try" -> "Try" [] w = "except" -> "Except"
          [] w = "finally" -> "Finally" [] w = "pass" -> "Pass"
          [] w = "and" -> "And" [] w = "or" -> "Or" [] w = "not" -> "Not"
          [] w = "true" -> "True" [] w = "false" -> "False" [] w = "none" -> "None"
          [] w = "class" -> "Class"]

\* The first loop of handle_indentation: the width of the leading blanks, a
\* tab reaching the next multiple of 8.
RECURSIVE measure_indent(_, _)
measure_indent(lx, indent) ==
    IF at_end(lx) THEN [lexer |-> lx, indent |-> indent]
    ELSE IF peek(lx) = " " THEN measure_indent(advance(lx), indent + 1)
    ELSE IF peek(lx) = "\t" THEN measure_indent(advance(lx), ((indent \div 8) + 1) * 8)
    ELSE [lexer |-> lx, indent |-> indent]

\* The dedent loop of handle_indentation.
RECURSIVE pop_dedents(_, _, _)
pop_dedents(stack, toks, indent) ==
    IF Len(stack) > 1 /\ stack[Len(stack)] > indent
    THEN pop_dedents(SubSeq(stack, 1, Len(stack) - 1),
                     Append(toks, Token("Dedent", "")), indent)
    ELSE [stack |-> stack, tokens |-> toks]

\* An indent that is reported but not recorded.
indent_push_none(stack, indent) == stack

\* indent_stack_.push_back(indent)
indent_push(stack, indent) == Append(stack, indent)

\* handle_indentation: error is the message of the LexerError, "" when none.
handle_indentation(lx0, toks) ==
    LET m == measure_indent(lx0, 0)
        lx == m.lexer
        indent == m.indent
        current == lx.indent_stack_[Len(lx.indent_stack_)]
    IN
    IF at_end(lx) \/ peek(lx) \in {"\n", "\r", "#"}
    THEN [lexer |-> lx, tokens |-> toks, error |-> ""]
    ELSE IF indent > current
    THEN [lexer |-> [lx EXCEPT !.indent_stack_ = indent_push(@, indent)],
          tokens |-> Append(toks, Token("Indent", "")), error |-> ""]
    ELSE IF indent < current
    THEN LET p == pop_dedents(lx.indent_stack_, toks, indent) IN
         [lexer |-> [lx EXCEPT !.indent_stack_ = p.stack], tokens |-> p.tokens,
          error |-> IF p.stack[Len(p.stack)] # indent
                    THEN "unindent does not match any outer indentation level"
                    ELSE ""]
    ELSE [lexer |-> lx, tokens |-> toks, error |-> ""]

RECURSIVE skip_comment(_)
skip_comment(lx) ==
    IF ~at_end(lx) /\ peek(lx) # "\n" THEN skip_comment(advance(lx)) ELSE lx

\* The loop of read_identifier_or_keyword.
RECURSIVE read_word(_, _)
read_word(lx, value) ==
    IF ~at_end(lx) /\ isalpha(peek(lx)) THEN read_word(advance(lx), value \o peek(lx))
    ELSE [lexer |-> lx, value |-> value]

read_identifier_or_keyword(lx) ==
    LET w == read_word(lx, "") IN
    [lexer |-> w.lexer,
     token |-> IF w.value \in DOMAIN keywords THEN Token(keywords[w.value], w.value)
               ELSE Token("Identifier", w.value)]

\* The loops while (!at_end() && isdigit(peek())) value += advance().
RECURSIVE read_digits(_, _, _)
read_digits(lx, chars, value) ==
    IF ~at_end(lx) /\ isdigit(peek(lx))
    THEN read_digits(advance(lx), Append(chars, peek(lx)), value \o peek(lx))
    ELSE [lexer |-> lx, chars |-> chars, value |-> value]

peek_next(lx) == IF lx.pos_ + 1 >= Len(lx.source_) THEN "" ELSE lx.source_[lx.pos_ + 2]


\* Lexer::read_number: the token of the lexeme r read so far.
number_token(r, type) ==
    [lexer |-> r.lexer, error |-> "", token |-> NumberToken(type, r.chars, r.value)]

\* value += advance()
take_char(r) ==
    [lexer |-> advance(r.lexer), chars |-> Append(r.chars, peek(r.lexer)),
     value |-> r.value \o peek(r.lexer)]

\* The digits of the exponent, after its e and its sign.
read_exponent_digits(e) ==
    IF at_end(e.lexer) \/ ~isdigit(peek(e.lexer))
    THEN [lexer |-> e.lexer, token |-> Token("", ""),
          error |-> "invalid numeric literal: expected digit after exponent"]
    ELSE number_token(read_digits(e.lexer, e.chars, e.value), "Float")

read_exponent_sign(e) ==
    IF ~at_end(e.lexer) /\ peek(e.lexer) \in {"+", "-"}
    THEN read_exponent_digits(take_char(e))
    ELSE read_exponent_digits(e)

\* The exponent, if any, after the mantissa f.
read_exponent(f, is_float) ==
    IF ~at_end(f.lexer) /\ peek(f.lexer) \in {"e", "E"}
    THEN read_exponent_sign(take_char(f))
    ELSE number_token(f, IF is_float THEN "Float" ELSE "Int")

\* The fraction, if any, after the integral digits i.
read_fraction(i) ==
    IF ~at_end(i.lexer) /\ peek(i.lexer) = "." /\ isdigit(peek_next(i.lexer))
    THEN read_exponent(read_digits(advance(i.lexer), Append(i.chars, "."), i.value \o "."),
                       TRUE)
    ELSE read_exponent(i, FALSE)

read_number(lx0) == read_fraction(read_digits(lx0, <<>>, ""))

\* read_operator_or_delimiter, for the one delimiter of the sources: ':'.
read_operator_or_delimiter(lx) ==
    LET c == peek(lx) IN
    [lexer |-> advance(lx),
     token |-> IF c = ":" THEN Token("Colon", ":") ELSE Token("", c),
     error |-> IF c = ":" THEN "" ELSE "unexpected character: '" \o c \o "'"]

\* One iteration of the while loop of tokenize, entered with !at_end().
tokenize_step(lx0, toks0) ==
    LET h == IF lx0.at_line_start_ THEN handle_indentation(lx0, toks0)
             ELSE [lexer |-> lx0, tokens |-> toks0, error |-> ""]
        lx == [h.lexer EXCEPT !.at_line_start_ = FALSE]
        toks == h.tokens
    IN
    IF h.error # "" THEN h
    ELSE IF at_end(lx) THEN [lexer |-> lx, tokens |-> toks, error |-> ""]
    ELSE LET c == peek(lx) IN
         IF c = " " \/ c = "\t"
         THEN [lexer |-> advance(lx), tokens |-> toks, error |-> ""]
         ELSE IF c = "\n"
         THEN [lexer |-> [advance(lx) EXCEPT !.at_line_start_ = TRUE],
               tokens |-> Append(toks, Token("Newline", "\\n")), error |-> ""]
         ELSE IF c = "#"
         THEN [lexer |-> skip_comment(lx), tokens |-> toks, error |-> ""]
         ELSE IF isdigit(c)
         THEN LET r == read_number(lx) IN
              [lexer |-> r.lexer,
               tokens |-> IF r.error = "" THEN Append(toks, r.token) ELSE toks,
               error |-> r.error]
         ELSE IF isalpha(c)
         THEN LET r == read_identifier_or_keyword(lx) IN
              [lexer |-> r.lexer, tokens |-> Append(toks, r.token), error |-> ""]
         ELSE LET r == read_operator_or_delimiter(lx) IN
              [lexer |-> r.lexer,
               tokens |-> IF r.error = "" THEN Append(toks, r.token) ELSE toks,
               error |-> r.error]

\* The end of tokenize, after the loop: the final Newline, a Dedent for every
\* open indentation level, and Eof.
tokenize_finish(lx, toks) ==
    LET t1 == IF toks # <<>> /\ toks[Len(toks)].type # "Newline"
              THEN Append(toks, Token("Newline", "\\n")) ELSE toks
        t2 == t1 \o [i \in 1..(Len(lx.indent_stack_) - 1) |-> Token("Dedent", "")]
    IN [lexer |-> [lx EXCEPT !.indent_stack_ = << 0 >>],
        tokens |-> Append(t2, Token("Eof", ""))]

\* Lexer::tokenize: the loop, then the end.
RECURSIVE tokenize_from(_, _)
tokenize_from(lx, toks) ==
    IF at_end(lx)
    THEN LET r == tokenize_finish(lx, toks) IN
         [lexer |-> r.lexer, tokens |-> r.tokens, error |-> ""]
    ELSE LET r == tokenize_step(lx, toks) IN
         IF r.error # "" THEN r ELSE tokenize_from(r.lexer, r.tokens)

tokenize(source) == tokenize_from(Lexer(source), <<>>)

-----------------------------------------------------------------------------
(* The parser (boa/parser.h) on the token types that the lexer above       *)
(* produces and on the operator tokens.  A parse function takes the token  *)
(* vector and pos_ and returns the new pos_, the node and the message of   *)
(* the ParseError ("" when none; the "ParseError at line L, column C: "    *)
(* prefix of what() is left out).                                          *)

Parsed(p, node) == [pos_ |-> p, node |-> node, error |-> ""]
ParseError(p, msg) == [pos_ |-> p, node |-> NullNode, error |-> msg]

current(toks, p) == IF p < Len(toks) THEN toks[p + 1] ELSE toks[Len(toks)]
check(toks, p, t) == current(toks, p).type = t

expect(toks, p, t, ctx) ==
    IF check(toks, p, t) THEN Parsed(p + 1, NullNode)
    ELSE LET c == current(toks, p) IN
         ParseError(p, "expected " \o t \o (IF ctx # "" THEN " " \o ctx ELSE "")
                       \o ", got " \o c.type
                       \o (IF c.value # "" THEN " '" \o c.value \o "'" ELSE ""))

RECURSIVE skip_newlines(_, _)
skip_newlines(toks, p) ==
    IF check(toks, p, "Newline") /\ p < Len(toks) THEN skip_newlines(toks, p + 1) ELSE p

\* An atom that takes whatever token comes.
parse_atom_any(toks, p) == Parsed(p + 1, Identifier(current(toks, p).value))

\* parse_atom: its alternatives for the token types that the lexer above
\* produces, number literals and identifiers.
parse_atom(toks, p) ==
    IF check(toks, p, "Int") \/ check(toks, p, "Float")
    THEN Parsed(p + 1, NumberLiteralOf(stod(current(toks, p).chars)))
    ELSE IF check(toks, p, "Identifier")
    THEN Parsed(p + 1, Identifier(current(toks, p).value))
    ELSE LET tok == current(toks, p) IN
         ParseError(p, "unexpected token " \o tok.type \o " '" \o tok.value \o "'")

\* parse_postfix: none of LParen, LBracket, Dot follows an atom here.
parse_postfix(toks, p) == parse_atom(toks, p)

\* std::make_unique<BinaryOp>(left, op, right) once right is parsed.
binary_node(left, op, right) ==
    IF right.error # "" THEN right
    ELSE Parsed(right.pos_, BinaryOp(left.node, op, right.node))

\* std::make_unique<UnaryOp>(op, operand) once operand is parsed.
unary_node(op, operand) ==
    IF operand.error # "" THEN operand
    ELSE Parsed(operand.pos_, UnaryOp(op, operand.node))

is_comparison_op(t) == t \in {"EqEq", "BangEq", "Less", "LessEq", "Greater", "GreaterEq"}

\* The left operand of a loop that has parsed no operand yet.
NoLeft == Parsed(0, NullNode)

\* left, once the operand right is parsed: the first operand of a level or
\* the BinaryOp that the loop of the level folds into left.
fold_operand(left, op, right) ==
    IF left = NoLeft THEN right ELSE binary_node(left, op, right)

RECURSIVE parse_unary(_, _), parse_not_expr(_, _), multiplication_loop(_, _, _, _),
          addition_loop(_, _, _, _), comparison_loop(_, _, _, _),
          and_loop(_, _, _, _), or_loop(_, _, _, _)

\* A power_exponent whose exponent is a postfix expression.
power_exponent_postfix(toks, base) ==
    IF base.error = "" /\ check(toks, base.pos_, "DoubleStar")
    THEN binary_node(base, "DoubleStar", parse_postfix(toks, base.pos_ + 1))
    ELSE base

\* The if of parse_power, base being parsed: the exponent is parse_unary().
power_exponent(toks, base) ==
    IF base.error = "" /\ check(toks, base.pos_, "DoubleStar")
    THEN binary_node(base, "DoubleStar", parse_unary(toks, base.pos_ + 1))
    ELSE base

parse_power(toks, p) == power_exponent(toks, parse_postfix(toks, p))

parse_unary(toks, p) ==
    IF check(toks, p, "Minus") \/ check(toks, p, "Plus")
    THEN unary_node(current(toks, p).type, parse_unary(toks, p + 1))
    ELSE parse_power(toks, p)

\* The test of the while loop of parse_multiplication, left being parsed.
multiplication_next(toks, left) ==
    IF left.error = "" /\ current(toks, left.pos_).type \in {"Star", "Slash", "Percent"}
    THEN multiplication_loop(toks, left, current(toks, left.pos_).type, left.pos_ + 1)
    ELSE left

\* parse_unary() for the first operand (left is NoLeft) and in the loop body.
multiplication_loop(toks, left, op, p) ==
    multiplication_next(toks, fold_operand(left, op, parse_unary(toks, p)))

parse_multiplication(toks, p) == multiplication_loop(toks, NoLeft, "", p)

\* The test of the while loop of parse_addition.
addition_next(toks, left) ==
    IF left.error = "" /\ current(toks, left.pos_).type \in {"Plus", "Minus"}
    THEN addition_loop(toks, left, current(toks, left.pos_).type, left.pos_ + 1)
    ELSE left

addition_loop(toks, left, op, p) ==
    addition_next(toks, fold_operand(left, op, parse_multiplication(toks, p)))

parse_addition(toks, p) == addition_loop(toks, NoLeft, "", p)

\* The test of the while loop of parse_comparison.
comparison_next(toks, left) ==
    IF left.error = "" /\ is_comparison_op(current(toks, left.pos_).type)
    THEN comparison_loop(toks, left, current(toks, left.pos_).type, left.pos_ + 1)
    ELSE left

comparison_loop(toks, left, op, p) ==
    comparison_next(toks, fold_operand(left, op, parse_addition(toks, p)))

parse_comparison(toks, p) == comparison_loop(toks, NoLeft, "", p)

parse_not_expr(toks, p) ==
    IF check(toks, p, "Not") THEN unary_node("Not", parse_not_expr(toks, p + 1))
    ELSE parse_comparison(toks, p)

\* The test of the while loop of parse_and_expr.
and_next(toks, left) ==
    IF left.error = "" /\ check(toks, left.pos_, "And")
    THEN and_loop(toks, left, "And", left.pos_ + 1)
    ELSE left

and_loop(toks, left, op, p) ==
    and_next(toks, fold_operand(left, op, parse_not_expr(toks, p)))

parse_and_expr(toks, p) == and_loop(toks, NoLeft, "", p)

\* The test of the while loop of parse_or_expr.
or_next(toks, left) ==
    IF left.error = "" /\ check(toks, left.pos_, "Or")
    THEN or_loop(toks, left, "Or", left.pos_ + 1)
    ELSE left

or_loop(toks, left, op, p) ==
    or_next(toks, fold_operand(left, op, parse_and_expr(toks, p)))

parse_or_expr(toks, p) == or_loop(toks, NoLeft, "", p)

parse_expression(toks, p) == parse_or_expr(toks, p)

expect_end_of_stmt(toks, p) ==
    IF check(toks, p, "Newline") \/ check(toks, p, "Eof") \/ check(toks, p, "Dedent")
    THEN Parsed(IF check(toks, p, "Newline") THEN p + 1 ELSE p, NullNode)
    ELSE LET c == current(toks, p) IN
         ParseError(p, "expected end of statement, got " \o c.type \o " '" \o c.value \o "'")

\* parse_assignment_or_expr_stmt: no assignment operator follows the expression.
parse_assignment_or_expr_stmt(toks, p) ==
    LET expr == parse_expression(toks, p) IN
    IF expr.error # "" THEN expr
    ELSE LET e == expect_end_of_stmt(toks, expr.pos_) IN
         IF e.error # "" THEN e ELSE Parsed(e.pos_, ExpressionStmt(expr.node))

RECURSIVE parse_statement(_, _), parse_if_stmt(_, _), parse_block(_, _),
          block_stmts(_, _, _), program_stmts(_, _, _)

\* The statement loop of parse_block.
block_stmts(toks, p, stmts) ==
    IF check(toks, p, "Dedent") \/ check(toks, p, "Eof") THEN Parsed(p, stmts)
    ELSE LET s == parse_statement(toks, p) IN
         IF s.error # "" THEN s
         ELSE block_stmts(toks, skip_newlines(toks, s.pos_), Append(stmts, s.node))

parse_block(toks, p) ==
    LET n == expect(toks, p, "Newline", "before indented block") IN
    IF n.error # "" THEN n
    ELSE LET i == expect(toks, skip_newlines(toks, n.pos_), "Indent",
                         "to start indented block") IN
         IF i.error # "" THEN i
         ELSE LET b == block_stmts(toks, skip_newlines(toks, i.pos_), <<>>) IN
              IF b.error # "" THEN b
              ELSE LET d == expect(toks, b.pos_, "Dedent", "to end indented block") IN
                   IF d.error # "" THEN d ELSE Parsed(d.pos_, b.node)

\* parse_if_stmt: neither Elif nor Else follows the block.
parse_if_stmt(toks, p) ==
    LET k == expect(toks, p, "If", "") IN
    IF k.error # "" THEN k
    ELSE LET cond == parse_expression(toks, k.pos_) IN
         IF cond.error # "" THEN cond
         ELSE LET c == expect(toks, cond.pos_, "Colon", "") IN
              IF c.error # "" THEN c
              ELSE LET body == parse_block(toks, c.pos_) IN
                   IF body.error # "" THEN body
                   ELSE Parsed(skip_newlines(toks, body.pos_),
                               IfStmt(cond.node, body.node, <<>>, <<>>))

parse_statement(toks, p0) ==
    LET p == skip_newlines(toks, p0) IN
    IF check(toks, p, "If") THEN parse_if_stmt(toks, p)
    ELSE parse_assignment_or_expr_stmt(toks, p)

\* The statement loop of parse_program.
program_stmts(toks, p, stmts) ==
    IF check(toks, p, "Eof") THEN Parsed(p, stmts)
    ELSE LET s == parse_statement(toks, p) IN
         IF s.error # "" THEN s
         ELSE program_stmts(toks, skip_newlines(toks, s.pos_), Append(stmts, s.node))

parse_program(toks) == program_stmts(toks, skip_newlines(toks, 0), <<>>)

-----------------------------------------------------------------------------
(* The interpreter as a state machine.                                     *)

BuiltinNames == {"len", "str", "int", "float", "type", "range", "append", "print"}

\* Interpreter(): the global environment with the built-ins, and the io and
\* fs modules in module_cache_.
Interpreter ==
    /\ envs = << [vars |-> [n \in BuiltinNames |-> make_builtin(n)], parent |-> 0] >>
    /\ heap = << ModuleCell("io", [n \in {"print", "println", "input"} |->
                                      make_builtin(IF n = "println" THEN "print" ELSE n)]),
                 ModuleCell("fs", [n \in {"read_all_bytes", "write_all_bytes",
                                          "read_text", "write_text"} |-> make_builtin(n)]) >>
    /\ module_cache_ = [io |-> make_ref("Module", 1), fs |-> make_ref("Module", 2)]
    /\ output_ = ""
    /\ cout = ""
    /\ result = make_none
    /\ exec_count = [m \in DOMAIN ModuleFiles |-> 0]
    /\ try_entered = 0
    /\ finally_runs = 0
    /\ use_after_free = FALSE

\* run_and_capture: set_capture_output(true) on a fresh interpreter, and run()
\* has reached exec: the statements that the parser returned are the ones
\* that the actions of a specification draw.
Init ==
    /\ Interpreter
    /\ capture_output_ = TRUE
    /\ asts = [count |-> 1, run |-> 1, modules |-> {}]
    /\ stmt = NullNode
    /\ pc = 0
    /\ lexer = Lexer(<<>>)
    /\ tokens = <<>>
    /\ program = <<>>
    /\ status = "running"
    /\ error = ""

St == [envs |-> envs, heap |-> heap, module_cache_ |-> module_cache_,
       output_ |-> output_, capture_output_ |-> capture_output_, cout |-> cout,
       exec_count |-> exec_count,
       try_entered |-> try_entered, finally_runs |-> finally_runs,
       asts |-> asts, importing |-> {}, cur_ast |-> asts.run, use_after_free |-> FALSE]

\* What the statement whose evaluation is r does to run().  Reading a node of
\* a destroyed Program is undefined behaviour: the freed memory may still hold
\* the node, and the evaluation goes on as r, or the process is killed.
Outcomes(r) ==
    { [sig |-> IF r.sig = "ok" THEN "running" ELSE r.sig, val |-> r.val, msg |-> r.msg] }
    \cup IF r.st.use_after_free
          THEN { [sig |-> "SIGSEGV", val |-> make_none, msg |-> ""] }
          ELSE {}

\* One iteration of the loop of exec_body over the program's statements:
\* result = eval(stmt, global_env_).  An exception leaves run().
ExecStmt(s) ==
    /\ status = "running"
    /\ LET r == eval(s, GlobalEnv, St) IN
        /\ envs' = r.st.envs
        /\ heap' = r.st.heap
        /\ module_cache_' = r.st.module_cache_
        /\ output_' = r.st.output_
        /\ cout' = r.st.cout
        /\ capture_output_' = capture_output_
        /\ exec_count' = r.st.exec_count
        /\ try_entered' = r.st.try_entered
        /\ finally_runs' = r.st.finally_runs
        /\ use_after_free' = (use_after_free \/ r.st.use_after_free)
        /\ stmt' = s
        /\ pc' = pc + 1
        /\ \E outcome \in Outcomes(r) :
            /\ status' = outcome.sig
            /\ asts' = IF outcome.sig = "running" THEN r.st.asts ELSE [r.st.asts EXCEPT !.run = 0]
            /\ result' = outcome.val
            /\ error' = outcome.msg

\* The programs of most specifications have at most MaxStmts statements.
Evaluate(s) == pc < MaxStmts /\ ExecStmt(s)

Step(s) == Evaluate(s) /\ UNCHANGED <<lexer, tokens, program>>

\* A step of a specification whose programs have at most max statements.
StepWithin(s, max) == pc < max /\ ExecStmt(s) /\ UNCHANGED <<lexer, tokens, program>>

\* The loop of exec_body ends and run() returns the last value.
RunReturn ==
    /\ status = "running"
    /\ status' = "returned"
    /\ asts' = [asts EXCEPT !.run = 0]
    /\ UNCHANGED <<envs, heap, module_cache_, output_, capture_output_, cout, stmt, pc,
                   lexer, tokens, program, result, error, exec_count, try_entered,
                   finally_runs, use_after_free>>

\* A step of exec_body's loop is taken: stmt' is the statement it evaluated.
Stepped == status = "running" /\ pc' = pc + 1

-----------------------------------------------------------------------------
(* Scoping: programs of plain assignments, function definitions and calls. *)

Lit(v) == NumberLiteral(v)
SetStmt(name, v) == Assignment(Identifier(name), "Eq", Lit(v))
CallStmt(f, args) == ExpressionStmt(FunctionCall(Identifier(f), args))

\* fn f(): x = 2      fn g(x): x = 3      fn outer(): y = 4 ; fn inner(): y = 5
ScopeDefs ==
    { FnDef("f", <<>>, << SetStmt("x", 2) >>),
      FnDef("g", << "x" >>, << SetStmt("x", 3) >>),
      FnDef("outer", <<>>, << SetStmt("y", 4),
                              FnDef("inner", <<>>, << SetStmt("y", 5) >>) >>) }

ScopeAssigns == { SetStmt(n, 1) : n \in {"x", "y"} }

ScopeAssign == \E s \in ScopeAssigns : Step(s)

ScopeFnDef == \E d \in ScopeDefs : Step(d)

\* h = outer(): the value of outer's last statement is the function inner.
ScopeBindClosureStmt ==
    Assignment(Identifier("h"), "Eq", FunctionCall(Identifier("outer"), <<>>))

ScopeBindClosure == Step(ScopeBindClosureStmt)

ScopeCalls == { CallStmt("f", <<>>), CallStmt("g", << Lit(7) >>), CallStmt("h", <<>>) }

ScopeCall == \E c \in ScopeCalls : Step(c)

NextScope == ScopeAssign \/ ScopeFnDef \/ ScopeBindClosure \/ ScopeCall \/ RunReturn

SpecScope == Init /\ [][NextScope]_vars

\* The environments on the parent chain of e, e first.
RECURSIVE Chain(_, _)
Chain(es, e) == IF e = 0 THEN <<>> ELSE <<e>> \o Chain(es, es[e].parent)

\* s calls, with literal arguments, a global function whose body is one
\* plain assignment name = literal.
IsSetCall(s, es) ==
    /\ s.k = "ExpressionStmt"
    /\ s.expr.k = "FunctionCall"
    /\ s.expr.callee.k = "Identifier"
    /\ LET fv == Environment_get(es, GlobalEnv, s.expr.callee.name) IN
        /\ fv.type = "Function"
        /\ Len(fv.func_val.params) = Len(s.expr.args)
        /\ Len(fv.func_val.body) = 1
        /\ fv.func_val.body[1].k = "Assignment"
        /\ fv.func_val.body[1].op = "Eq"

\* envs' is before with exactly the binding of name in environment target
\* set to val: no other binding of any environment is added, dropped or changed.
OnlyBindingChanged(before, after, target, name, val) ==
    /\ Len(after) = Len(before)
    /\ \A e \in 1..Len(before) :
        /\ after[e].parent = before[e].parent
        /\ DOMAIN after[e].vars =
              DOMAIN before[e].vars \cup (IF e = target THEN {name} ELSE {})
        /\ \A n \in DOMAIN after[e].vars :
              after[e].vars[n] = IF e = target /\ n = name THEN val
                                 ELSE before[e].vars[n]

\* The environment that an assignment to name in environment e must write:
\* the nearest one on e's chain that binds name, or e when none does.
WriteTarget(es, e, name) ==
    LET c == Chain(es, e)
        binders == {i \in 1..Len(c) : name \in DOMAIN es[c[i]].vars}
    IN IF binders = {} THEN e
       ELSE c[CHOOSE i \in binders : \A j \in binders : i <= j]

\* C1: a plain assignment name = v executed in environment E writes the
\* binding of the nearest environment on E's parent chain that binds name, or
\* creates it in E when none does, and changes no other binding.  Checked for
\* an assignment at top level (E is the global environment) and for one that
\* is the body of a called function (E is the call's environment).
C1_ScopeWalkAssign ==
    [][ /\ (Stepped /\ IsSetCall(stmt', envs)) =>
            LET call == stmt'.expr
                fn == Environment_get(envs, GlobalEnv, call.callee.name).func_val
                E == Len(envs) + 1
                before == Append(envs,
                            [vars |-> [p \in {fn.params[i] : i \in 1..Len(fn.params)} |->
                                         LET i == CHOOSE i \in 1..Len(fn.params) :
                                                     fn.params[i] = p
                                         IN make_int(call.args[i].value)],
                             parent |-> fn.closure])
                name == fn.body[1].target.name
            IN OnlyBindingChanged(before, envs', WriteTarget(before, E, name), name,
                                  make_int(fn.body[1].value.value))
        /\ (Stepped /\ stmt'.k = "Assignment" /\ stmt'.value.k = "NumberLiteral") =>
            OnlyBindingChanged(envs, envs', GlobalEnv, stmt'.target.name,
                               make_int(stmt'.value.value))
      ]_vars

\* After x = 1 ; fn f(): x = 2 ; f() the global x is 2 and the environment
\* of the call binds nothing.
C1_Witness ==
    /\ stmt = CallStmt("f", <<>>)
    /\ status = "running"
    /\ Len(envs) = 2
    /\ "x" \in DOMAIN envs[GlobalEnv].vars
    /\ envs[GlobalEnv].vars["x"] = make_int(2)
    /\ DOMAIN envs[Len(envs)].vars = {}

\* After fn outer ; h = outer() ; h() the assignment y = 5 in inner's call
\* wrote the y of outer's environment, the middle of a chain of three.
C1_WitnessChain ==
    /\ stmt = CallStmt("h", <<>>)
    /\ status = "running"
    /\ Len(envs) = 3
    /\ envs[2].vars["y"] = make_int(5)
    /\ "y" \notin DOMAIN envs[GlobalEnv].vars

-----------------------------------------------------------------------------
(* Boolean operators: programs of statements L and R, L or R, r = L and R, *)
(* r = L or R, where R may fail or print.                                  *)

PrintCall(t) == FunctionCall(Identifier("print"), << StringLiteral(t) >>)

\* true   false   0   1   print("L")
BoolLeft == { BoolLiteral(TRUE), BoolLiteral(FALSE), Lit(0), Lit(1), PrintCall("L") }

\* boom (never bound)   1 / 0   print("R")   5
BoolRight == { Identifier("boom"), BinaryOp(Lit(1), "Slash", Lit(0)), PrintCall("R"),
               Lit(5) }

BoolExprs == { BinaryOp(l, op, r) : l \in BoolLeft, op \in {"And", "Or"}, r \in BoolRight }

BoolExprStmts == { ExpressionStmt(e) : e \in BoolExprs }

BoolExprStmt == \E s \in BoolExprStmts : Step(s)

BoolAssigns == { Assignment(Identifier("r"), "Eq", e) : e \in BoolExprs }

BoolAssign == \E s \in BoolAssigns : Step(s)

NextBool == BoolExprStmt \/ BoolAssign \/ RunReturn

SpecBool == Init /\ [][NextBool]_vars

\* The and/or expression of a statement of SpecBool.
BoolExprOf(s) == IF s.k = "ExpressionStmt" THEN s.expr ELSE s.value

\* The statement s with its and/or expression replaced by the left operand.
LeftOnly(s) ==
    IF s.k = "ExpressionStmt" THEN ExpressionStmt(s.expr.left)
    ELSE Assignment(s.target, s.op, s.value.left)

\* The left operand of the and/or expression of s evaluates, in state st, to a
\* value that decides the expression: truthy for or, falsy for and.
LeftDecides(s, st) ==
    LET l == eval(BoolExprOf(s).left, GlobalEnv, st) IN
    /\ l.sig = "ok"
    /\ (BoolExprOf(s).op = "Or") = is_truthy(l.val, l.st.heap)

\* C2: and/or short-circuit -- when the left operand decides the expression
\* (falsy for and, truthy for or) the right operand is never evaluated: the
\* statement raises nothing from it and has none of its side effects, so it
\* acts exactly as the same statement with the left operand alone, and the
\* value of the expression is the left operand's value.
C2_ShortCircuit ==
    [][ (Stepped /\ LeftDecides(stmt', St)) =>
            LET r == eval(LeftOnly(stmt'), GlobalEnv, St) IN
            /\ status' = "running"
            /\ result' = r.val
            /\ envs' = r.st.envs
            /\ heap' = r.st.heap
            /\ output_' = r.st.output_ ]_vars

-----------------------------------------------------------------------------
(* try / except / finally: programs of try statements at top level and in  *)
(* function bodies.                                                        *)

DivZero == BinaryOp(Lit(1), "Slash", Lit(0))
SetExpr(name, e) == Assignment(Identifier(name), "Eq", e)

\* a = 1 ; b = 1 / 0 ; c = 1        a = 2        a = 3 ; c = boom ; b = 3
TryBodies ==
    { << SetStmt("a", 1), SetExpr("b", DivZero), SetStmt("c", 1) >>,
      << SetStmt("a", 2) >>,
      << SetStmt("a", 3), SetExpr("c", Identifier("boom")), SetStmt("b", 3) >> }

\* no except clause     except: d = 1     except e: d = 1     except e: d = boom
TryHandlers ==
    { [var |-> "", body |-> <<>>],
      [var |-> "", body |-> << SetStmt("d", 1) >>],
      [var |-> "e", body |-> << SetStmt("d", 1) >>],
      [var |-> "e", body |-> << SetExpr("d", Identifier("boom")) >>] }

\* no finally clause     finally: fin = 1
TryFinals == { <<>>, << SetStmt("fin", 1) >> }

\* fn t(): try: b = 1 / 0  except e: pass
\* fn u(): try: ret 1  finally: fin = 1
TryDefs ==
    { FnDef("t", <<>>, << TryStmt(<< SetExpr("b", DivZero) >>, "e", << PassStmt >>, <<>>) >>),
      FnDef("u", <<>>, << TryStmt(<< ReturnStmt(Lit(1)) >>, "", <<>>,
                                  << SetStmt("fin", 1) >>) >>) }

TryTops ==
    { TryStmt(tb, h.var, h.body, fb) : tb \in TryBodies, h \in TryHandlers, fb \in TryFinals }

TryTop == \E s \in TryTops : Step(s)

TryFnDef == \E d \in TryDefs : Step(d)

TryAssignStmt == SetStmt("e", 0)

TryAssign == Step(TryAssignStmt)

TryCalls == { CallStmt(f, <<>>) : f \in {"t", "u"} }

TryCall == \E s \in TryCalls : Step(s)

NextTry == TryTop \/ TryFnDef \/ TryAssign \/ TryCall \/ RunReturn

SpecTry == Init /\ [][NextTry]_vars

\* C3: a try statement with a finally body, once entered, runs the finally
\* body exactly once before control leaves it, however it leaves -- so when no
\* statement is being evaluated every entered try statement with a finally
\* body has run its finally body once.
C3_FinallyOnce == finally_runs = try_entered

\* The names that the plain assignments among the statements of body assign.
AssignedNames(body) ==
    { body[k].target.name : k \in { j \in 1..Len(body) : body[j].k = "Assignment" } }

\* The global binding of name: <<value>>, or <<>> when name is unbound.
Binding(es, name) ==
    IF name \in DOMAIN es[GlobalEnv].vars THEN << es[GlobalEnv].vars[name] >> ELSE <<>>

Raises(body, st) == exec_body(body, GlobalEnv, st).sig = "BoaRuntimeError"

\* The index of the statement of body that raises.
FirstRaise(body, st) ==
    CHOOSE i \in 1..Len(body) :
        /\ exec_body(SubSeq(body, 1, i - 1), GlobalEnv, st).sig = "ok"
        /\ Raises(SubSeq(body, 1, i), st)

\* Every statement of body is name = literal.
AllLiteralSets(body) ==
    \A k \in 1..Len(body) : body[k].k = "Assignment" /\ body[k].value.k = "NumberLiteral"

\* C7: when a statement of a try body raises a runtime error and the try
\* statement has an except clause, the rest of the try body is skipped, the
\* except variable (if named) is bound by the scope-walk assignment rule to
\* the string describing the error, the except body runs and the error does
\* not leave the try statement; what the try body bound before the error is
\* kept.  Checked for a try statement at top level and for one in the body of
\* a called function, where the except variable may be bound globally.
C7_ExceptCatches ==
    [][ /\ (Stepped /\ stmt'.k = "TryStmt" /\ stmt'.except_body # <<>>
              /\ Raises(stmt'.try_body, St)) =>
            LET tb == stmt'.try_body
                i == FirstRaise(tb, St)
                pre == exec_body(SubSeq(tb, 1, i - 1), GlobalEnv, St)
                err == eval(tb[i], GlobalEnv, pre.st)
                rebound == {stmt'.except_var} \cup AssignedNames(stmt'.except_body)
                              \cup AssignedNames(stmt'.finally_body)
            IN
            /\ \A n \in (DOMAIN envs'[GlobalEnv].vars
                           \cup DOMAIN pre.st.envs[GlobalEnv].vars) \ rebound :
                   Binding(envs', n) = Binding(pre.st.envs, n)
            /\ err.msg \in {"Division by zero", "Undefined variable 'boom'"}
            /\ stmt'.except_var # "" =>
                   Binding(envs', stmt'.except_var) = << make_string(err.msg) >>
            /\ IF AllLiteralSets(stmt'.except_body)
               THEN /\ status' = "running"
                    /\ \A k \in 1..Len(stmt'.except_body) :
                          Binding(envs', stmt'.except_body[k].target.name)
                             = << make_int(stmt'.except_body[k].value.value) >>
               ELSE /\ status' = "BoaRuntimeError"
                    /\ error' = "Undefined variable 'boom'"
        /\ (Stepped /\ stmt' = CallStmt("t", <<>>)
              /\ Environment_get(envs, GlobalEnv, "t").type = "Function") =>
            LET E == Len(envs) + 1
                target == IF "e" \in DOMAIN envs[GlobalEnv].vars THEN GlobalEnv ELSE E
            IN
            /\ status' = "running"
            /\ Len(envs') = E
            /\ OnlyBindingChanged(Append(envs, Environment(GlobalEnv)), envs', target,
                                  "e", make_string("Division by zero")) ]_vars

\* After try: a = 1 ; b = 1 / 0 ; c = 1  except e: d = 1 the run goes on with
\* a = 1, e = "Division by zero", d = 1 and neither b nor c bound.
C7_Witness ==
    /\ stmt.k = "TryStmt"
    /\ stmt.try_body = << SetStmt("a", 1), SetExpr("b", DivZero), SetStmt("c", 1) >>
    /\ stmt.except_var = "e"
    /\ status = "running"
    /\ Binding(envs, "a") = << make_int(1) >>
    /\ Binding(envs, "e") = << make_string("Division by zero") >>
    /\ Binding(envs, "d") = << make_int(1) >>
    /\ Binding(envs, "b") = <<>>
    /\ Binding(envs, "c") = <<>>

\* After e = 0 ; fn t ; t() the handler in t's body wrote the global e.
C7_WitnessGlobalVar ==
    /\ stmt = CallStmt("t", <<>>)
    /\ status = "running"
    /\ Binding(envs, "e") = << make_string("Division by zero") >>
    /\ DOMAIN envs[Len(envs)].vars = {}

-----------------------------------------------------------------------------
(* Imports: programs of imp statements at top level, in a function body    *)
(* and in a try body, over the module files of ModuleFiles.                *)

Imp(mods) == ImportStmt(mods)

UserModules == DOMAIN ModuleFiles

\* imp m   imp bad   imp dep   imp nofile   imp io   imp m, m   imp io, m
ImportTops ==
    { Imp(mods) : mods \in { <<"m">>, <<"bad">>, <<"dep">>, <<"nofile">>, <<"io">>,
                             <<"m", "m">>, <<"io", "m">> } }

ImportTop == \E s \in ImportTops : Step(s)

\* try: imp bad  except: pass        try: imp dep  except: pass
ImportGuards ==
    { TryStmt(<< Imp(<< mod >>) >>, "", << PassStmt >>, <<>>) : mod \in {"bad", "dep"} }

ImportGuarded == \E s \in ImportGuards : Step(s)

\* fn h(): imp m
ImportFnDefStmt == FnDef("h", <<>>, << Imp(<< "m" >>) >>)

ImportFnDef == Step(ImportFnDefStmt)

ImportCallStmt == CallStmt("h", <<>>)

ImportCall == Step(ImportCallStmt)

\* x = 1, the name that the module dep reads.
ImportAssignStmt == SetStmt("x", 1)

ImportAssign == Step(ImportAssignStmt)

\* m.v
ImportMemberStmt == ExpressionStmt(MemberAccess(Identifier("m"), "v"))

ImportMember == Step(ImportMemberStmt)

NextImport ==
    \/ ImportTop \/ ImportGuarded \/ ImportFnDef \/ ImportCall \/ ImportAssign
    \/ ImportMember \/ RunReturn

SpecImport == Init /\ [][NextImport]_vars

\* The names that the top level of a program assigns or defines.
TopLevelNames(prog) ==
    AssignedNames(prog) \cup { prog[k].name : k \in { j \in 1..Len(prog) : prog[j].k = "FnDef" } }

\* C4: imp m of a user module m that is not cached runs m's top level in a
\* fresh environment below the global one -- after a successful import every
\* name that m's top level newly defines is a member of the Module bound to m
\* and is not a binding of the importer's global environment.
C4_ModuleScope ==
    [][ \A mod \in UserModules :
          (Stepped /\ stmt' = Imp(<< mod >>) /\ mod \notin DOMAIN module_cache_
             /\ status' = "running") =>
            \A n \in TopLevelNames(ModuleFiles[mod]) \ DOMAIN envs[GlobalEnv].vars :
               /\ n \in DOMAIN heap'[envs'[GlobalEnv].vars[mod].ref].members
               /\ n \notin DOMAIN envs'[GlobalEnv].vars ]_vars

C5_WitnessTwice ==
    /\ stmt = Imp(<< "m", "m" >>)
    /\ status = "running"
    /\ exec_count["m"] = 1
    /\ Binding(envs, "m") = << module_cache_["m"] >>

-----------------------------------------------------------------------------
(* Calls: programs that define functions and call them with matching and   *)
(* mismatching argument counts.  The bodies assign the marker k.           *)

ExprOf(v) == ExpressionStmt(Lit(v))
IfOnly(c, b) == IfStmt(c, b, <<>>, <<>>)

\* fn f1(): k = 1 ; 7
\* fn f2(): 7 ; pass
\* fn f3(c): k = 1 ; if c: 8
\* fn f4(c): if c: ret 9 ; k = 2 ; 5
\* fn f5(): while true: ret ; k = 3
\* fn f6(): for i in [1, 2]: while true: if i: ret i ; k = 4
CallDefs ==
    { FnDef("f1", <<>>, << SetStmt("k", 1), ExprOf(7) >>),
      FnDef("f2", <<>>, << ExprOf(7), PassStmt >>),
      FnDef("f3", << "c" >>, << SetStmt("k", 1), IfOnly(Identifier("c"), << ExprOf(8) >>) >>),
      FnDef("f4", << "c" >>, << IfOnly(Identifier("c"), << ReturnStmt(Lit(9)) >>),
                                SetStmt("k", 2), ExprOf(5) >>),
      FnDef("f5", <<>>, << WhileStmt(BoolLiteral(TRUE), << ReturnStmt(NullNode) >>),
                           SetStmt("k", 3) >>),
      FnDef("f6", <<>>,
            << ForStmt("i", ListLiteral(<< Lit(1), Lit(2) >>),
                       << WhileStmt(BoolLiteral(TRUE),
                             << IfOnly(Identifier("i"),
                                       << ReturnStmt(Identifier("i")) >>) >>) >>),
               SetStmt("k", 4) >>) }

\* The calls whose argument count matches, with the value the call must
\* return and the value the body must have assigned to k (0: k is untouched).
CallTable ==
    { [call |-> CallStmt("f1", <<>>),           val |-> make_int(7), k |-> 1],
      [call |-> CallStmt("f2", <<>>),           val |-> make_none,   k |-> 0],
      [call |-> CallStmt("f3", << Lit(0) >>),   val |-> make_none,   k |-> 1],
      [call |-> CallStmt("f3", << Lit(1) >>),   val |-> make_int(8), k |-> 1],
      [call |-> CallStmt("f4", << Lit(0) >>),   val |-> make_int(5), k |-> 2],
      [call |-> CallStmt("f4", << Lit(1) >>),   val |-> make_int(9), k |-> 0],
      [call |-> CallStmt("f5", <<>>),           val |-> make_none,   k |-> 0],
      [call |-> CallStmt("f6", <<>>),           val |-> make_int(1), k |-> 0] }

\* The calls whose argument count does not match, with the counts to report
\* and what evaluating the arguments prints.
ArityTable ==
    { [call |-> CallStmt("f1", << Lit(1) >>),  expected |-> "0", got |-> "1", out |-> ""],
      [call |-> CallStmt("f3", <<>>),          expected |-> "1", got |-> "0", out |-> ""],
      [call |-> CallStmt("f3", << Lit(1), Lit(2) >>),
                                               expected |-> "1", got |-> "2", out |-> ""],
      [call |-> CallStmt("f1", << PrintCall("A") >>),
                                               expected |-> "0", got |-> "1", out |-> "A\n"],
      [call |-> CallStmt("f4", << PrintCall("A"), PrintCall("B") >>),
                                               expected |-> "1", got |-> "2", out |-> "A\nB\n"] }

CallFnDef == \E d \in CallDefs : Step(d)

\* k = 6: the marker as a global name.
CallAssignStmt == SetStmt("k", 6)

CallAssign == Step(CallAssignStmt)

CallMatching == \E c \in CallTable : Step(c.call)

CallMismatching == \E c \in ArityTable : Step(c.call)

\* f3(boom, 1): an argument that raises, in a call with one argument too many.
CallBadArgStmt == CallStmt("f3", << Identifier("boom"), Lit(1) >>)

CallBadArg == Step(CallBadArgStmt)

NextCall ==
    \/ CallFnDef \/ CallAssign \/ CallMatching \/ CallMismatching \/ CallBadArg
    \/ RunReturn

SpecCall == Init /\ [][NextCall]_vars

\* The callee of the call statement s is bound, globally, to a Function.
CalleeDefined(s, es) == Environment_get(es, GlobalEnv, s.expr.callee.name).type = "Function"

\* C6: a call of a user function with matching arity returns the value of
\* the last body statement evaluated when no ret executes (None after pass
\* or after an if with no taken branch), and when a ret executes inside
\* nested if/for/while blocks it returns the ret's value (None for a bare
\* ret) and no later body statement is executed.  For each call of CallTable:
\* the statement's value is the tabulated one, and the marker k is written
\* exactly when the assignment to it precedes every executed ret.
C6_CallReturns ==
    [][ \A c \in CallTable :
          (Stepped /\ stmt' = c.call /\ CalleeDefined(c.call, envs)) =>
            LET E == Len(envs) + 1
                target == IF "k" \in DOMAIN envs[GlobalEnv].vars THEN GlobalEnv ELSE E
            IN
            /\ status' = "running"
            /\ result' = c.val
            /\ Len(envs') = E
            /\ envs'[E].parent = GlobalEnv
            /\ IF c.k = 0
               THEN /\ envs'[GlobalEnv] = envs[GlobalEnv]
                    /\ "k" \notin DOMAIN envs'[E].vars
               ELSE /\ "k" \in DOMAIN envs'[target].vars
                    /\ envs'[target].vars["k"] = make_int(c.k) ]_vars

\* After fn f4(c): if c: ret 9 ; k = 2 ; 5 and the call f4(1) the statement's
\* value is 9 and k is bound nowhere.
C6_Witness ==
    /\ stmt = CallStmt("f4", << Lit(1) >>)
    /\ status = "running"
    /\ result = make_int(9)
    /\ \A e \in 1..Len(envs) : "k" \notin DOMAIN envs[e].vars

\* After fn f3(c): k = 1 ; if c: 8 and the call f3(0) the value is None.
C6_WitnessImplicitNone ==
    /\ stmt = CallStmt("f3", << Lit(0) >>)
    /\ status = "running"
    /\ result = make_none
    /\ Len(envs) = 2
    /\ "k" \in DOMAIN envs[2].vars

\* After fn f6 and the call f6() the value is 1, the first element.
C6_WitnessLoops ==
    /\ stmt = CallStmt("f6", <<>>)
    /\ status = "running"
    /\ result = make_int(1)

\* C10: a call of a user function with a number of arguments other than its
\* parameter count raises the runtime error "Function 'X' expected N
\* arguments, got M" once the callee and the arguments are evaluated (what
\* the arguments print is printed); no body statement runs, no call
\* environment appears and no binding changes.  When an argument raises, its
\* error is the one reported.
C10_ArityError ==
    [][ /\ \A c \in ArityTable :
             (Stepped /\ stmt' = c.call /\ CalleeDefined(c.call, envs)) =>
               /\ status' = "BoaRuntimeError"
               /\ error' = "Function '" \o c.call.expr.callee.name \o "' expected "
                              \o c.expected \o " arguments, got " \o c.got
               /\ envs' = envs
               /\ heap' = heap
               /\ output_' = output_ \o c.out
        /\ (Stepped /\ stmt' = CallStmt("f3", << Identifier("boom"), Lit(1) >>)
              /\ CalleeDefined(stmt', envs)) =>
               /\ status' = "BoaRuntimeError"
               /\ error' = "Undefined variable 'boom'"
               /\ envs' = envs ]_vars

\* After fn f4(c) and the call f4(print("A"), print("B")) both arguments have
\* printed and the run has stopped with the arity error.
C10_Witness ==
    /\ stmt = CallStmt("f4", << PrintCall("A"), PrintCall("B") >>)
    /\ status = "BoaRuntimeError"
    /\ error = "Function 'f4' expected 1 arguments, got 2"
    /\ output_ = "A\nB\n"
    /\ Len(envs) = 1

-----------------------------------------------------------------------------
(* Lexing and parsing: run() on every source of at most MaxSrc characters  *)
(* over blank, tab, newline, x and #, and on the named sources below.      *)

LexAlphabet == {" ", "\t", "\n", "x", "#"}

\* if x:\n x\n   y         (lines indented by 0, 1 and 3 columns)
SrcDeeper ==
    << "i", "f", " ", "x", ":", "\n", " ", "x", "\n", " ", " ", " ", "y" >>

\* if x:\n   x\n y         (lines indented by 0, 3 and 1 columns)
SrcMismatch ==
    << "i", "f", " ", "x", ":", "\n", " ", " ", " ", "x", "\n", " ", "y" >>

\* if x:\n x\ny
SrcIf == << "i", "f", " ", "x", ":", "\n", " ", "x", "\n", "y" >>

\* x\n x\n\tx\nx           (two levels closed by one line)
SrcTwoLevels == << "x", "\n", " ", "x", "\n", "\t", "x", "\n", "x" >>

Sources ==
    UNION { [1..n -> LexAlphabet] : n \in 0..MaxSrc }
        \cup { SrcDeeper, SrcMismatch, SrcIf, SrcTwoLevels }

\* run(source) of run_and_capture has constructed the Lexer of a source.
InitLex ==
    /\ Interpreter
    /\ capture_output_ = TRUE
    /\ stmt = NullNode
    /\ pc = 0
    /\ \E src \in Sources : lexer = Lexer(src)
    /\ tokens = <<>>
    /\ program = <<>>
    /\ status = "lexing"
    /\ error = ""
    /\ asts = [count |-> 0, run |-> 0, modules |-> {}]

IdleInterpreter ==
    UNCHANGED <<envs, heap, module_cache_, output_, capture_output_, cout, stmt, pc,
                result, exec_count, try_entered, finally_runs, asts, use_after_free>>

\* One iteration of the loop of Lexer::tokenize; a LexerError leaves run().
LexStep ==
    /\ status = "lexing"
    /\ ~at_end(lexer)
    /\ LET r == tokenize_step(lexer, tokens) IN
        /\ lexer' = r.lexer
        /\ tokens' = r.tokens
        /\ status' = IF r.error # "" THEN "LexerError" ELSE "lexing"
        /\ error' = r.error
    /\ UNCHANGED program
    /\ IdleInterpreter

\* The loop of tokenize has ended: tokenize returns the closed token vector.
LexFinish ==
    /\ status = "lexing"
    /\ at_end(lexer)
    /\ LET r == tokenize_finish(lexer, tokens) IN
        /\ lexer' = r.lexer
        /\ tokens' = r.tokens
    /\ status' = "parsing"
    /\ UNCHANGED <<program, error>>
    /\ IdleInterpreter

\* parser.parse_program(); a ParseError leaves run().
Parse ==
    /\ status = "parsing"
    /\ LET r == parse_program(tokens) IN
        /\ program' = IF r.error = "" THEN r.node ELSE <<>>
        /\ status' = IF r.error = "" THEN "parsed" ELSE "ParseError"
        /\ error' = r.error
    /\ UNCHANGED <<lexer, tokens>>
    /\ IdleInterpreter

NextLex == LexStep \/ LexFinish \/ Parse

SpecLex == InitLex /\ [][NextLex]_vars

\* The number of tokens of type t in toks.
Count(toks, t) == Cardinality({ i \in 1..Len(toks) : toks[i].type = t })

TokenTypes(toks) == [i \in 1..Len(toks) |-> toks[i].type]

\* tokenize has returned: the source was lexed without error.
Lexed == status \in {"parsing", "parsed", "ParseError"}

\* run() has ended, with a Program to exec or with an exception.
RunEnded == status \in {"parsed", "LexerError", "ParseError"}

\* C8: for every source that the lexer tokenizes without error the token
\* stream has as many Indent as Dedent tokens, every prefix of it has at
\* least as many Indents as Dedents, and it ends with its only Eof, after
\* all Dedents.  While the lexer runs, the Indents not yet closed are the
\* levels on indent_stack_ above the bottom one.
C8_IndentBalance ==
    /\ Lexed =>
        /\ Count(tokens, "Indent") = Count(tokens, "Dedent")
        /\ \A n \in 0..Len(tokens) :
              Count(SubSeq(tokens, 1, n), "Indent") >= Count(SubSeq(tokens, 1, n), "Dedent")
        /\ Count(tokens, "Eof") = 1
        /\ tokens[Len(tokens)].type = "Eof"
    /\ status = "lexing" =>
        /\ Count(tokens, "Indent") - Count(tokens, "Dedent") = Len(lexer.indent_stack_) - 1
        /\ Count(tokens, "Eof") = 0

\* x\n x\n\tx\nx is lexed with two Indents, closed by two Dedents before the
\* last x.
C8_Witness ==
    /\ Lexed
    /\ lexer.source_ = SrcTwoLevels
    /\ TokenTypes(tokens) =
          << "Identifier", "Newline", "Indent", "Identifier", "Newline", "Indent",
             "Identifier", "Newline", "Dedent", "Dedent", "Identifier", "Newline", "Eof" >>

\* \tx\n x is lexed with an Indent closed at the end of the input.
C8_WitnessEnd ==
    /\ Lexed
    /\ lexer.source_ = << " ", "x", "\n", "\t", "x" >>
    /\ TokenTypes(tokens) =
          << "Indent", "Identifier", "Newline", "Indent", "Identifier", "Newline",
             "Dedent", "Dedent", "Eof" >>

\* C9 as stated: running if x:\n x\n   y fails with a LexerError raised by
\* the lexer.
C9_DeeperIsLexerError ==
    (lexer.source_ = SrcDeeper /\ RunEnded) => status = "LexerError"

\* C9: running if x:\n x\n   y fails, and the failure is a ParseError raised
\* by parse_atom -- the lexer accepts the deeper third line as a second
\* Indent and closes both levels at the end, and the parser finds the Indent
\* where a statement must start.  The LexerError for indentation is raised
\* when a line returns to a column that is no open level, as in
\* if x:\n   x\n y; and if x:\n x\ny is parsed.
C9_DeeperIsParseError ==
    /\ (lexer.source_ = SrcDeeper /\ RunEnded) =>
        /\ status = "ParseError"
        /\ error = "unexpected token Indent ''"
        /\ TokenTypes(tokens) =
              << "If", "Identifier", "Colon", "Newline", "Indent", "Identifier",
                 "Newline", "Indent", "Identifier", "Newline", "Dedent", "Dedent", "Eof" >>
    /\ (lexer.source_ = SrcMismatch /\ status # "lexing") =>
        /\ status = "LexerError"
        /\ error = "unindent does not match any outer indentation level"
    /\ (lexer.source_ = SrcIf /\ RunEnded) =>
        /\ status = "parsed"
        /\ program = << IfStmt(Identifier("x"), << ExpressionStmt(Identifier("x")) >>,
                               <<>>, <<>>),
                        ExpressionStmt(Identifier("y")) >>

\* The run of if x:\n x\n   y has ended with the ParseError.
C9_Witness ==
    /\ lexer.source_ = SrcDeeper
    /\ status = "ParseError"
    /\ Count(tokens, "Indent") = 2

\* The run of if x:\n   x\n y has ended with the LexerError.
C9_WitnessMismatch ==
    /\ lexer.source_ = SrcMismatch
    /\ status = "LexerError"

-----------------------------------------------------------------------------
(* Numbers: a literal from its lexeme to its value, and the operator /.    *)

\* 42  7  2  0  3.14  3.0  7.0  1e2  0.5  3.5  2e-1
NumLexemes ==
    { << "4", "2" >>, << "7" >>, << "2" >>, << "0" >>, << "3", ".", "1", "4" >>,
      << "3", ".", "0" >>, << "7", ".", "0" >>, << "1", "e", "2" >>,
      << "0", ".", "5" >>, << "3", ".", "5" >>, << "2", "e", "-", "1" >> }

\* The tokens of a source that is one numeric literal, and the node that
\* parse_atom builds from them.
LiteralTokens(chars) == << read_number(Lexer(chars)).token, Token("Eof", "") >>
LiteralNode(chars) == parse_atom(LiteralTokens(chars), 0).node

TypeCall(e) == FunctionCall(Identifier("type"), << e >>)
FloatCall(e) == FunctionCall(Identifier("float"), << e >>)

\* The number of statements of a program of SpecNum.
MaxNumStmts == 2

\* The statement s of a source whose only literal is chars.
LiteralStmt(chars, s) ==
    /\ pc < MaxNumStmts
    /\ Evaluate(s)
    /\ lexer' = read_number(Lexer(chars)).lexer
    /\ tokens' = LiteralTokens(chars)
    /\ UNCHANGED program

\* t = type(<literal>)
NumTypes ==
    { [chars |-> chars, stmt |-> SetExpr("t", TypeCall(LiteralNode(chars)))] :
        chars \in NumLexemes }

NumType == \E c \in NumTypes : LiteralStmt(c.chars, c.stmt)

\* d = <literal> / 2
NumLiteralDivides ==
    { [chars |-> chars, stmt |-> SetExpr("d", BinaryOp(LiteralNode(chars), "Slash", Lit(2)))] :
        chars \in NumLexemes }

NumLiteralDivide == \E c \in NumLiteralDivides : LiteralStmt(c.chars, c.stmt)

\* 10  3  -7  2  0  3.5  float(0)  float(2)  -float(7)
NumOperands ==
    { Lit(10), Lit(3), UnaryOp("Minus", Lit(7)), Lit(2), Lit(0),
      NumberLiteralOf(Double(7, 2)),
      FloatCall(Lit(0)), FloatCall(Lit(2)), UnaryOp("Minus", FloatCall(Lit(7))) }

\* q = L / R
NumDivide ==
    /\ pc < MaxNumStmts
    /\ \E l \in NumOperands, r \in NumOperands : Step(SetExpr("q", BinaryOp(l, "Slash", r)))

NextNum == NumType \/ NumLiteralDivide \/ NumDivide \/ RunReturn

SpecNum == Init /\ [][NextNum]_vars

\* C11: a literal that the lexer emits as a Float token evaluates to a float and
\* one that it emits as an Int token to an int: type(<literal>) is "float" or
\* "int" accordingly, and <Float literal> / 2 is a floating division.
C11_LiteralType ==
    [][Stepped /\ stmt'.k = "Assignment" /\ stmt'.target.name \in {"t", "d"}
       => LET tok == tokens'[1] IN
          /\ status' = "running"
          /\ stmt'.target.name = "t"
             => Binding(envs', "t")
                = << make_string(IF tok.type = "Float" THEN "float" ELSE "int") >>
          /\ stmt'.target.name = "d" /\ tok.type = "Float"
             => Binding(envs', "d")[1].type = "Float"]_vars

IsZero(v) ==
    \/ v.type = "Int" /\ v.int_val = 0
    \/ v.type = "Float" /\ v.float_val.num = 0

\* The values of the operands of the statement q = L / R just evaluated.
DivLeft == eval(stmt'.value.left, GlobalEnv, St).val
DivRight == eval(stmt'.value.right, GlobalEnv, St).val

\* v is the quotient of a by b truncated toward zero: the remainder is smaller
\* than the divisor and, unless zero, has the sign of the dividend.
IsTruncatedQuotient(v, a, b) ==
    LET m == a - v * b IN
    /\ Abs(m) < Abs(b)
    /\ m = 0 \/ (m < 0) = (a < 0)

\* C12: L / R on numbers raises "Division by zero" and binds nothing when R is
\* Int 0 or Float 0.0; two Ints give the Int quotient truncated toward zero;
\* every other combination of numbers gives a Float, the quotient.
C12_Divide ==
    [][Stepped /\ stmt'.k = "Assignment" /\ stmt'.target.name = "q"
       => IF IsZero(DivRight)
          THEN /\ status' = "BoaRuntimeError"
               /\ error' = "Division by zero"
               /\ envs' = envs
          ELSE /\ status' = "running"
               /\ Binding(envs', "q") # <<>>
               /\ LET v == Binding(envs', "q")[1] IN
                  IF DivLeft.type = "Int" /\ DivRight.type = "Int"
                  THEN /\ v.type = "Int"
                       /\ IsTruncatedQuotient(v.int_val, DivLeft.int_val, DivRight.int_val)
                  ELSE /\ v.type = "Float"
                       /\ DoubleMul(v.float_val, as_number(DivRight)) = as_number(DivLeft)
      ]_vars

\* q = -7 / 2 has bound q to -3.
C12_Witness ==
    /\ pc > 0
    /\ stmt = SetExpr("q", BinaryOp(UnaryOp("Minus", Lit(7)), "Slash", Lit(2)))
    /\ Binding(envs, "q") = << make_int(-3) >>

\* q = 3.5 / float(0) after q = 10 / 3: the error left q at 3.
C12_WitnessFloatZero ==
    /\ stmt = SetExpr("q", BinaryOp(NumberLiteralOf(Double(7, 2)), "Slash", FloatCall(Lit(0))))
    /\ error = "Division by zero"
    /\ Binding(envs, "q") = << make_int(3) >>

-----------------------------------------------------------------------------
(* Conversions: str(int(s)) on string literals.                            *)

\* The number of statements of a program of SpecConv.
MaxConvStmts == 1

IntCall(e) == FunctionCall(Identifier("int"), << e >>)
StrCall(e) == FunctionCall(Identifier("str"), << e >>)

\* s = str(int("<chars>"))
RoundTrip(chars) == SetExpr("s", StrCall(IntCall(StringLiteral(Concat(chars)))))

ConvRoundTrip ==
    /\ pc < MaxConvStmts
    /\ \E chars \in StringChars : Step(RoundTrip(chars))

NextConv == ConvRoundTrip \/ RunReturn

SpecConv == Init /\ [][NextConv]_vars

\* The strings that match [0-9]+.
DigitStrings == { chars \in StringChars : chars # <<>> /\ \A i \in DOMAIN chars : isdigit(chars[i]) }

\* chars without its leading zeros, the last character kept.
RECURSIVE Canonical(_)
Canonical(chars) ==
    IF Len(chars) > 1 /\ chars[1] = "0" THEN Canonical(Tail(chars)) ELSE chars

\* C13 as stated: str(int(s)) = s for every s that matches [0-9]+, leading
\* zeros included.
C13_RoundTripAll ==
    [][Stepped => \A chars \in DigitStrings :
                    stmt' = RoundTrip(chars)
                    => /\ status' = "running"
                       /\ Binding(envs', "s") = << make_string(Concat(chars)) >>]_vars

\* C13, amended: for every s that matches [0-9]+, str(int(s)) is s without its
\* leading zeros, so that str(int(s)) = s exactly when s is "0" or starts with
\* a digit other than 0.
C13_RoundTripCanonical ==
    [][Stepped => \A chars \in DigitStrings :
                    stmt' = RoundTrip(chars)
                    => /\ status' = "running"
                       /\ Binding(envs', "s") = << make_string(Concat(Canonical(chars))) >>
                       /\ (Binding(envs', "s") = << make_string(Concat(chars)) >>)
                          <=> (chars = << "0" >> \/ chars[1] # "0")]_vars

\* s = str(int("007")) has bound s to "7".
C13_Witness ==
    /\ stmt = RoundTrip(<< "0", "0", "7" >>)
    /\ Binding(envs, "s") = << make_string("7") >>

\* s = str(int("70")) has bound s to "70".
C13_WitnessSame ==
    /\ stmt = RoundTrip(<< "7", "0" >>)
    /\ Binding(envs, "s") = << make_string("70") >>

-----------------------------------------------------------------------------
(* Truthiness: not x and not not x on values of every type.                *)

\* The number of statements of a program of SpecTruth.
MaxTruthStmts == 2

\* none  true  false  0  5  -1  float(0)  -float(0)  0.5  ""  "a"  "0"  []  [0]
\* [[]]  {}  {0: 0}  f  print  io  io.print
TruthOperands ==
    { NoneLiteral, BoolLiteral(TRUE), BoolLiteral(FALSE), Lit(0), Lit(5),
      UnaryOp("Minus", Lit(1)), FloatCall(Lit(0)), UnaryOp("Minus", FloatCall(Lit(0))),
      NumberLiteralOf(Double(1, 2)), StringLiteral(""), StringLiteral("a"),
      StringLiteral("0"), ListLiteral(<<>>), ListLiteral(<< Lit(0) >>),
      ListLiteral(<< ListLiteral(<<>>) >>), DictLiteral(<<>>),
      DictLiteral(<< << Lit(0), Lit(0) >> >>), Identifier("f"), Identifier("print"),
      Identifier("io"), MemberAccess(Identifier("io"), "print") }

Not(e) == UnaryOp("Not", e)

\* fn f(): pass        imp io
TruthDefine ==
    /\ pc < MaxTruthStmts
    /\ \E s \in { FnDef("f", <<>>, << PassStmt >>), Imp(<< "io" >>) } : Step(s)

\* n = not x
TruthNot ==
    /\ pc < MaxTruthStmts
    /\ \E x \in TruthOperands : Step(SetExpr("n", Not(x)))

\* nn = not not x
TruthNotNot ==
    /\ pc < MaxTruthStmts
    /\ \E x \in TruthOperands : Step(SetExpr("nn", Not(Not(x))))

NextTruth == TruthDefine \/ TruthNot \/ TruthNotNot \/ RunReturn

SpecTruth == Init /\ [][NextTruth]_vars

\* The falsy values as the claim lists them.
Falsy(v, h) ==
    \/ v = make_none
    \/ v = make_bool(FALSE)
    \/ v = make_int(0)
    \/ v = make_float(DoubleOfInt(0))
    \/ v = make_string("")
    \/ v.type = "List" /\ Len(h[v.ref].list_val) = 0
    \/ v.type = "Dict" /\ Len(h[v.ref].dict_val) = 0

\* The operand x of the statement n = not x or nn = not not x just evaluated,
\* evaluated in the state before the statement.
NotOperand == IF stmt'.target.name = "n" THEN stmt'.value.operand
              ELSE stmt'.value.operand.operand
NotOperandResult == eval(NotOperand, GlobalEnv, St)

\* C14: for every value x, not x is a Bool and not not x is true iff x is
\* truthy, the falsy values being exactly none, false, Int 0, Float 0.0, "",
\* the empty list and the empty dict.
C14_Truthiness ==
    [][Stepped /\ stmt'.k = "Assignment" /\ NotOperandResult.sig = "ok"
       => LET x == NotOperandResult.val
              falsy == Falsy(x, NotOperandResult.st.heap)
          IN /\ status' = "running"
             /\ stmt'.target.name = "n" => Binding(envs', "n") = << make_bool(falsy) >>
             /\ stmt'.target.name = "nn" => Binding(envs', "nn") = << make_bool(~falsy) >>
      ]_vars

\* nn = not not {} has bound nn to false.
C14_Witness ==
    /\ stmt = SetExpr("nn", Not(Not(DictLiteral(<<>>))))
    /\ Binding(envs, "nn") = << make_bool(FALSE) >>

\* After fn f(): pass, n = not f has bound n to false.
C14_WitnessFunction ==
    /\ stmt = SetExpr("n", Not(Identifier("f")))
    /\ Binding(envs, "n") = << make_bool(FALSE) >>

\* nn = not not -float(0) has bound nn to false.
C14_WitnessFloatZero ==
    /\ stmt = SetExpr("nn", Not(Not(UnaryOp("Minus", FloatCall(Lit(0))))))
    /\ Binding(envs, "nn") = << make_bool(FALSE) >>

-----------------------------------------------------------------------------
(* Loops: for and while, and the words break and continue in their bodies. *)

\* The number of statements of a program of SpecLoop.
MaxLoopStmts == 3

\* The statement that the parser builds from a line that is the word chars.
WordStmt(chars) == parse_program(tokenize(chars).tokens).node[1]

BreakStmt == WordStmt(<< "b", "r", "e", "a", "k" >>)
ContinueStmt == WordStmt(<< "c", "o", "n", "t", "i", "n", "u", "e" >>)

Var(name) == Identifier(name)
IntList(vs) == ListLiteral([j \in DOMAIN vs |-> Lit(vs[j])])

\* for i in [1, 2, 3]:
\*     a = i
\*     if i == 2:
\*         <word>
\*     b = i
ForWith(word) ==
    ForStmt("i", IntList(<< 1, 2, 3 >>),
            << SetExpr("a", Var("i")),
               IfOnly(BinaryOp(Var("i"), "EqEq", Lit(2)), << word >>),
               SetExpr("b", Var("i")) >>)

\* while n < 3:
\*     n += 1
\*     if n == 2:
\*         <word>
\*     b = n
WhileWith(word) ==
    WhileStmt(BinaryOp(Var("n"), "Less", Lit(3)),
              << Assignment(Var("n"), "PlusEq", Lit(1)),
                 IfOnly(BinaryOp(Var("n"), "EqEq", Lit(2)), << word >>),
                 SetExpr("b", Var("n")) >>)

\* The loops with break and continue, and the global bindings that each leaves
\* when break ends the loop and continue starts the next iteration.
BreakTable ==
    << [loop |-> ForWith(BreakStmt), expect |-> [i |-> 2, a |-> 2, b |-> 1]],
       [loop |-> ForWith(ContinueStmt), expect |-> [i |-> 3, a |-> 3, b |-> 3]],
       [loop |-> WhileWith(BreakStmt), expect |-> [n |-> 2, b |-> 1]],
       [loop |-> WhileWith(ContinueStmt), expect |-> [n |-> 3, b |-> 3]] >>

\* n = 0
LoopAssignStmt == SetStmt("n", 0)

LoopAssign == StepWithin(LoopAssignStmt, MaxLoopStmts)

LoopBreak == \E j \in DOMAIN BreakTable : StepWithin(BreakTable[j].loop, MaxLoopStmts)

\* C15: in the body of a for or while loop, break ends the loop without
\* running the rest of the body or a further iteration, continue skips the
\* rest of the body and goes on with the next iteration, and neither raises
\* an error.
C15_BreakContinue ==
    [][Stepped => \A j \in DOMAIN BreakTable :
                    /\ stmt' = BreakTable[j].loop
                    /\ stmt'.k = "WhileStmt" => Binding(envs, "n") = << make_int(0) >>
                    => /\ status' = "running"
                       /\ \A v \in DOMAIN BreakTable[j].expect :
                            Binding(envs', v) = << make_int(BreakTable[j].expect[v]) >>
      ]_vars

\* fn mkl():                fn fl():
\*     print("E")               for i in [1, 2]:
\*     [1, 2]                       m = i
LoopDefs ==
    { FnDef("mkl", <<>>, << ExpressionStmt(PrintCall("E")),
                            ExpressionStmt(IntList(<< 1, 2 >>)) >>),
      FnDef("fl", <<>>, << ForStmt("i", IntList(<< 1, 2 >>), << SetExpr("m", Var("i")) >>) >>) }

\* [1, 2]   [3]   []   l   mkl()   5   "ab"   none
ForIterables ==
    { IntList(<< 1, 2 >>), IntList(<< 3 >>), IntList(<<>>), Var("l"),
      FunctionCall(Var("mkl"), <<>>), Lit(5), StringLiteral("ab"), NoneLiteral }

\* The bodies of the loops for i in e, with the names that each assigns.
\*     print(i)            if true:                     k = 0
\*     last = i                t = i                    while k < 1:
\*                         try:                             k += 1
\*                             u = i                        w = i
\*                             boom
\*                         except e:
\*                             c = i
ForBodies ==
    << [body |-> << ExpressionStmt(FunctionCall(Var("print"), << Var("i") >>)),
                    SetExpr("last", Var("i")) >>,
        names |-> {"last"}, prints |-> TRUE, also |-> <<>>],
       [body |-> << IfOnly(BoolLiteral(TRUE), << SetExpr("t", Var("i")) >>),
                    TryStmt(<< SetExpr("u", Var("i")), ExpressionStmt(Var("boom")) >>,
                            "e", << SetExpr("c", Var("i")) >>, <<>>) >>,
        names |-> {"t", "u", "c"}, prints |-> FALSE, also |-> <<>>],
       [body |-> << SetStmt("k", 0),
                    WhileStmt(BinaryOp(Var("k"), "Less", Lit(1)),
                              << Assignment(Var("k"), "PlusEq", Lit(1)),
                                 SetExpr("w", Var("i")) >>) >>,
        names |-> {"w"}, prints |-> FALSE, also |-> << "k" >>] >>

ForLoops == { ForStmt("i", e, ForBodies[j].body) : e \in ForIterables, j \in DOMAIN ForBodies }

\* i = 0        l = [4, 5]
LoopBinds == { SetStmt("i", 0), SetExpr("l", IntList(<< 4, 5 >>)) }

LoopBind == \E s \in LoopBinds : StepWithin(s, MaxLoopStmts)

LoopFnDef == \E d \in LoopDefs : StepWithin(d, MaxLoopStmts)

LoopFor == \E s \in ForLoops : StepWithin(s, MaxLoopStmts)

\* fl()
LoopCallStmt == CallStmt("fl", <<>>)

LoopCall == StepWithin(LoopCallStmt, MaxLoopStmts)

\* The text that the body print(i) writes for the elements elems[j..].
RECURSIVE PrintedFrom(_, _, _)
PrintedFrom(elems, j, h) ==
    IF j > Len(elems) THEN ""
    ELSE to_string(elems[j], h) \o "\n" \o PrintedFrom(elems, j + 1, h)

\* The iterable of the for statement just evaluated, evaluated in the state
\* before the statement.
ForIterable == eval(stmt'.iterable, GlobalEnv, St)

ForBody == CHOOSE j \in DOMAIN ForBodies : ForBodies[j].body = stmt'.body

\* C17: for v in e evaluates e once, raises RuntimeError unless it is a list,
\* and runs the body once per element in order, assigning the element to v by
\* the scope walk in the enclosing environment; for, if, while and try open no
\* environment, so v and the names assigned in the body stay bound in the
\* enclosing scope with their last values.
C17_ForLoop ==
    [][/\ Stepped
       /\ stmt' \in ForLoops => ForIterable.sig = "ok"
       /\ stmt' = CallStmt("fl", <<>>) => Binding(envs, "fl") # <<>>
       => /\ stmt' \in ForLoops /\ ForIterable.val.type # "List"
             => /\ status' = "BoaRuntimeError"
                /\ error' = "for: can only iterate over lists"
                /\ envs' = envs /\ output_' = output_
          /\ stmt' \in ForLoops /\ ForIterable.val.type = "List"
             => LET before == ForIterable.st
                    elems == before.heap[ForIterable.val.ref].list_val
                    last == elems[Len(elems)]
                    b == ForBodies[ForBody]
                IN /\ status' = "running"
                   /\ output_' = before.output_
                                   \o (IF b.prints THEN PrintedFrom(elems, 1, before.heap)
                                       ELSE "")
                   /\ Len(envs') = Len(before.envs)
                   /\ \A e \in 2..Len(envs') : envs'[e] = before.envs[e]
                   /\ elems = <<>> => envs' = before.envs
                   /\ elems # <<>>
                      => /\ \A n \in b.names \cup {"i"} : Binding(envs', n) = << last >>
                         /\ DOMAIN envs'[GlobalEnv].vars
                              = DOMAIN envs[GlobalEnv].vars \cup b.names \cup {"i"}
                                  \cup { b.also[j] : j \in DOMAIN b.also }
                                  \cup (IF "c" \in b.names THEN {"e"} ELSE {})
          /\ stmt' = CallStmt("fl", <<>>)
             => LET new == Len(envs) + 1 IN
                /\ status' = "running"
                /\ Len(envs') = new
                /\ IF Binding(envs, "i") # <<>>
                   THEN /\ Binding(envs', "i") = << make_int(2) >>
                        /\ "i" \notin DOMAIN envs'[new].vars
                   ELSE /\ Binding(envs', "i") = <<>>
                        /\ envs'[new].vars["i"] = make_int(2)
                /\ envs'[new].vars["m"] = make_int(2)
      ]_vars

\* for i in mkl(): print(i) ; last = i  has printed E once, then 1 and 2.
C17_Witness ==
    /\ stmt = ForStmt("i", FunctionCall(Var("mkl"), <<>>), ForBodies[1].body)
    /\ output_ = "E\n1\n2\n"
    /\ Binding(envs, "i") = << make_int(2) >>
    /\ Binding(envs, "last") = << make_int(2) >>

\* for i in "ab" has raised.
C17_WitnessNotList ==
    /\ stmt = ForStmt("i", StringLiteral("ab"), ForBodies[2].body)
    /\ error = "for: can only iterate over lists"

\* fl() after i = 0: the loop of fl has written the global i.
C17_WitnessScopeWalk ==
    /\ stmt = CallStmt("fl", <<>>)
    /\ Binding(envs, "i") = << make_int(2) >>

NextLoop ==
    LoopAssign \/ LoopBreak \/ LoopBind \/ LoopFnDef \/ LoopFor \/ LoopCall \/ RunReturn

SpecLoop == Init /\ [][NextLoop]_vars

-----------------------------------------------------------------------------
(* Closures: the environment of a call.                                    *)

\* The number of statements of a program of SpecClosure.
MaxClosureStmts == 4

\* fn mk(x):           fn rd():     fn caller(x):     fn p(x):
\*     fn get():           x            rd()              x = 5
\*         x                                              x
\*     get
ClosureDefs ==
    { FnDef("mk", << "x" >>, << FnDef("get", <<>>, << ExpressionStmt(Var("x")) >>),
                                ExpressionStmt(Var("get")) >>),
      FnDef("rd", <<>>, << ExpressionStmt(Var("x")) >>),
      FnDef("caller", << "x" >>, << ExpressionStmt(FunctionCall(Var("rd"), <<>>)) >>),
      FnDef("p", << "x" >>, << SetStmt("x", 5), ExpressionStmt(Var("x")) >>) }

\* r = f(args)
SetCall(f, args) == SetExpr("r", FunctionCall(Var(f), args))

ClosureCalls ==
    { SetCall("g", <<>>), SetCall("rd", <<>>), SetCall("caller", << Lit(9) >>),
      SetCall("p", << Lit(3) >>) }

\* x = 1        x = 2
ClosureAssigns == { SetStmt("x", v) : v \in {1, 2} }

ClosureAssign == \E s \in ClosureAssigns : StepWithin(s, MaxClosureStmts)

ClosureFnDef ==
    \E d \in ClosureDefs : StepWithin(d, MaxClosureStmts)

\* g = mk(7)
ClosureMakeStmt == SetExpr("g", FunctionCall(Var("mk"), << Lit(7) >>))

ClosureMake == StepWithin(ClosureMakeStmt, MaxClosureStmts)

ClosureCall ==
    \E c \in ClosureCalls : StepWithin(c, MaxClosureStmts)

NextClosure == ClosureAssign \/ ClosureFnDef \/ ClosureMake \/ ClosureCall \/ RunReturn

SpecClosure == Init /\ [][NextClosure]_vars

\* The statement just evaluated is r = f(...) for a global function f (and,
\* for caller, its callee rd is defined).
IsClosureCall ==
    /\ Stepped
    /\ stmt' \in ClosureCalls
    /\ Binding(envs, stmt'.value.callee.name) # <<>>
    /\ stmt'.value.callee.name = "caller" => Binding(envs, "rd") # <<>>

\* C16: a call runs in a new environment whose parent is the environment that
\* the function captured when fn was evaluated, never the caller's; the
\* parameters are defined in the new environment and leave outer bindings of
\* their names alone; free names of the body are looked up from the defining
\* environment and have their values of the time of the call.
C16_LexicalScope ==
    [][IsClosureCall
       => LET f == stmt'.value.callee.name
              fn == Binding(envs, f)[1].func_val
              new == Len(envs) + 1
              x == Binding(envs, "x")
          IN /\ Len(envs') >= new
             /\ envs'[new].parent = fn.closure
             /\ \A k \in DOMAIN fn.params : fn.params[k] \in DOMAIN envs'[new].vars
             /\ \A e \in 1..Len(envs) :
                   /\ envs'[e].parent = envs[e].parent
                   /\ \A n \in (DOMAIN envs[e].vars \cup DOMAIN envs'[e].vars) \ {"r"} :
                         /\ n \in DOMAIN envs[e].vars /\ n \in DOMAIN envs'[e].vars
                         /\ envs'[e].vars[n] = envs[e].vars[n]
             /\ f = "g" => /\ fn.closure # GlobalEnv
                           /\ envs[fn.closure].vars["x"] = make_int(7)
                           /\ status' = "running"
                           /\ Binding(envs', "r") = << make_int(7) >>
             /\ f = "caller" => /\ envs'[new].vars["x"] = make_int(9)
                                /\ Len(envs') = new + 1
                                /\ envs'[new + 1].parent = GlobalEnv
             /\ f \in {"rd", "caller"}
                => IF x = <<>>
                   THEN status' = "BoaRuntimeError" /\ error' = "Undefined variable 'x'"
                   ELSE status' = "running" /\ Binding(envs', "r") = x
             /\ f = "p" => /\ status' = "running"
                           /\ Binding(envs', "r") = << make_int(5) >>
                           /\ envs'[new].vars["x"] = make_int(5)
      ]_vars

\* r = g() with the global x at 1 or 2: the x of g is the 7 that mk was given.
C16_Witness ==
    /\ stmt = SetCall("g", <<>>)
    /\ Binding(envs, "x") \in { << make_int(1) >>, << make_int(2) >> }
    /\ Binding(envs, "r") = << make_int(7) >>

\* r = caller(9) with the global x at 1: rd has read the global x.
C16_WitnessCaller ==
    /\ stmt = SetCall("caller", << Lit(9) >>)
    /\ Binding(envs, "r") = << make_int(1) >>

\* r = p(3) with the global x at 2: the parameter took the 5.
C16_WitnessShadow ==
    /\ stmt = SetCall("p", << Lit(3) >>)
    /\ Binding(envs, "x") = << make_int(2) >>
    /\ Binding(envs, "r") = << make_int(5) >>

-----------------------------------------------------------------------------
(* Lists: shared storage, append, concatenation and indexing.              *)

\* The number of statements of a program of SpecList.
MaxListStmts == 3

AppendCall(l, v) == FunctionCall(Var("append"), << l, v >>)
MethodAppend(l, v) == FunctionCall(MemberAccess(l, "append"), << v >>)
IndexLit(i) == IF i < 0 THEN UnaryOp("Minus", Lit(-i)) ELSE Lit(i)

\* if true:                x = []
\*     x = [1, 2]
\*     z = [9]
ListBinds ==
    { IfOnly(BoolLiteral(TRUE), << SetExpr("x", IntList(<< 1, 2 >>)),
                                   SetExpr("z", IntList(<< 9 >>)) >>),
      SetExpr("x", IntList(<<>>)) }

ListBind == \E s \in ListBinds : StepWithin(s, MaxListStmts)

\* y = x
ListAliasStmt == SetExpr("y", Var("x"))

ListAlias == StepWithin(ListAliasStmt, MaxListStmts)

\* fn ap(l):
\*     append(l, 7)
ListFnDefStmt == FnDef("ap", << "l" >>, << ExpressionStmt(AppendCall(Var("l"), Lit(7))) >>)

ListFnDef == StepWithin(ListFnDefStmt, MaxListStmts)

\* s = x + z
ListConcatStmt == SetExpr("s", BinaryOp(Var("x"), "Plus", Var("z")))

ListConcat == StepWithin(ListConcatStmt, MaxListStmts)

\* append(y, 3)   y.append(4)   r = append(x, 3)   append(s, 8)   ap(x)
ListAppends ==
    { ExpressionStmt(AppendCall(Var("y"), Lit(3))),
      ExpressionStmt(MethodAppend(Var("y"), Lit(4))),
      SetExpr("r", AppendCall(Var("x"), Lit(3))),
      ExpressionStmt(AppendCall(Var("s"), Lit(8))),
      CallStmt("ap", << Var("x") >>) }

ListAppend == \E s \in ListAppends : StepWithin(s, MaxListStmts)

ListIndices == -3..2

\* r = x[i]
ListReads == { SetExpr("r", IndexExpr(Var("x"), IndexLit(i))) : i \in ListIndices }

ListRead == \E s \in ListReads : StepWithin(s, MaxListStmts)

\* x[i] = 8        y[0] = 5        s[0] = 6
ListWrites ==
    { Assignment(IndexExpr(Var("x"), IndexLit(i)), "Eq", Lit(8)) : i \in ListIndices }
    \cup { Assignment(IndexExpr(Var("y"), Lit(0)), "Eq", Lit(5)),
           Assignment(IndexExpr(Var("s"), Lit(0)), "Eq", Lit(6)) }

ListWrite == \E s \in ListWrites : StepWithin(s, MaxListStmts)

NextList ==
    ListBind \/ ListAlias \/ ListFnDef \/ ListConcat \/ ListAppend \/ ListRead
    \/ ListWrite \/ RunReturn

SpecList == Init /\ [][NextList]_vars

\* The list that the global name denotes in environments es and heap h.
IsList(es, name) == Binding(es, name) # <<>> /\ Binding(es, name)[1].type = "List"
ListOf(es, h, name) == h[Binding(es, name)[1].ref].list_val

\* The heap after is the heap before with the list at cell r set to elems and
\* nothing else changed.
OnlyListChanged(before, after, r, elems) ==
    /\ Len(after) = Len(before)
    /\ after[r].list_val = elems
    /\ \A c \in DOMAIN before : c # r => after[c] = before[c]

\* The name and the value of the append statement s: append(N, v), N.append(v),
\* r = append(N, v), ap(N) (which appends 7).
AppendName(s) ==
    LET call == IF s.k = "Assignment" THEN s.value ELSE s.expr IN
    IF call.callee.k = "MemberAccess" THEN call.callee.object.name ELSE call.args[1].name
AppendValue(s) ==
    LET call == IF s.k = "Assignment" THEN s.value ELSE s.expr IN
    IF call.callee.k = "MemberAccess" THEN make_int(call.args[1].value)
    ELSE IF call.callee.name = "ap" THEN make_int(7)
    ELSE make_int(call.args[2].value)

ListNames == {"x", "y", "z", "s"}

\* C18: after y = x the two names denote the same list, so that append(y, v),
\* y.append(v), y[i] = v and an append through a parameter are seen through
\* every name of the list; append adds one element at the end and returns none;
\* x + z is a new list, and changing it changes neither x nor z.
C18_ListsShared ==
    [][Stepped
       => /\ stmt' = SetExpr("y", Var("x")) /\ IsList(envs, "x")
             => /\ Binding(envs', "y") = Binding(envs, "x")
                /\ heap' = heap
          /\ stmt' \in ListAppends /\ IsList(envs, AppendName(stmt'))
               /\ (stmt'.k = "ExpressionStmt" /\ stmt'.expr.callee.k = "Identifier"
                   => Binding(envs, stmt'.expr.callee.name) # <<>>)
             => LET n == AppendName(stmt')
                    r == Binding(envs, n)[1].ref
                    new == Append(ListOf(envs, heap, n), AppendValue(stmt'))
                IN /\ status' = "running"
                   /\ OnlyListChanged(heap, heap', r, new)
                   /\ result' = make_none
                   /\ \A m \in ListNames :
                         /\ Binding(envs', m) = Binding(envs, m)
                         /\ IsList(envs, m) /\ Binding(envs, m)[1].ref = r
                            => ListOf(envs', heap', m) = new
                         /\ IsList(envs, m) /\ Binding(envs, m)[1].ref # r
                            => ListOf(envs', heap', m) = ListOf(envs, heap, m)
          /\ stmt' \in ListWrites /\ stmt'.target.index = Lit(0)
               /\ IsList(envs, stmt'.target.object.name)
               /\ ListOf(envs, heap, stmt'.target.object.name) # <<>>
             => LET n == stmt'.target.object.name
                    r == Binding(envs, n)[1].ref
                    new == [ListOf(envs, heap, n) EXCEPT ![1] = make_int(stmt'.value.value)]
                IN /\ OnlyListChanged(heap, heap', r, new)
                   /\ \A m \in ListNames :
                         IsList(envs, m) /\ Binding(envs, m)[1].ref = r
                         => ListOf(envs', heap', m) = new
          /\ stmt'.k = "Assignment" /\ stmt'.target = Var("s")
               /\ IsList(envs, "x") /\ IsList(envs, "z")
             => /\ status' = "running"
                /\ heap' = Append(heap, ListCell(ListOf(envs, heap, "x")
                                                 \o ListOf(envs, heap, "z")))
                /\ Binding(envs', "s") = << make_ref("List", Len(heap')) >>
                /\ \A m \in ListNames \ {"s"} : Binding(envs', m) = Binding(envs, m)
      ]_vars

\* After x = [1, 2] and y = x, append(y, 3) is seen through x.
C18_Witness ==
    /\ stmt = ExpressionStmt(AppendCall(Var("y"), Lit(3)))
    /\ IsList(envs, "x") /\ IsList(envs, "y")
    /\ ListOf(envs, heap, "x") = << make_int(1), make_int(2), make_int(3) >>

\* After x = [1, 2], z = [9] and s = x + z, append(s, 8) has changed s only.
C18_WitnessConcat ==
    /\ stmt = ExpressionStmt(AppendCall(Var("s"), Lit(8)))
    /\ IsList(envs, "s")
    /\ ListOf(envs, heap, "s") = << make_int(1), make_int(2), make_int(9), make_int(8) >>
    /\ ListOf(envs, heap, "x") = << make_int(1), make_int(2) >>
    /\ ListOf(envs, heap, "z") = << make_int(9) >>

\* ap(x) has appended 7 to the caller's list.
C18_WitnessArgument ==
    /\ stmt = CallStmt("ap", << Var("x") >>)
    /\ IsList(envs, "x")
    /\ ListOf(envs, heap, "x") = << make_int(7) >>

\* The integer of the index literal e.
IndexValue(e) == IF e.k = "UnaryOp" THEN -e.operand.value ELSE e.value

\* C19: on a list of length n, l[i] and l[i] = v address element i when
\* 0 <= i < n and element n + i when -n <= i < 0, and raise "Index out of
\* range" for every other i, leaving the list as it is; a write replaces that
\* one element in place.
C19_ListIndex ==
    [][Stepped /\ IsList(envs, "x")
       /\ \/ stmt'.k = "Assignment" /\ stmt'.target = Var("r") /\ stmt'.value.k = "IndexExpr"
          \/ stmt'.k = "Assignment" /\ stmt'.target.k = "IndexExpr"
                /\ stmt'.target.object = Var("x")
       => LET write == stmt'.target.k = "IndexExpr"
              i == IndexValue(IF write THEN stmt'.target.index ELSE stmt'.value.index)
              elems == ListOf(envs, heap, "x")
              n == Len(elems)
              r == Binding(envs, "x")[1].ref
              pos == IF i >= 0 THEN i + 1 ELSE n + i + 1
          IN IF (0 <= i /\ i < n) \/ (-n <= i /\ i < 0)
             THEN /\ status' = "running"
                  /\ write => /\ OnlyListChanged(heap, heap',
                                                 r, [elems EXCEPT ![pos] = make_int(8)])
                              /\ Len(heap'[r].list_val) = n
                              /\ envs' = envs
                  /\ ~write => /\ Binding(envs', "r") = << elems[pos] >>
                               /\ heap' = heap
             ELSE /\ status' = "BoaRuntimeError"
                  /\ error' = "Index out of range"
                  /\ heap' = heap
                  /\ envs' = envs
      ]_vars

\* x[-1] = 8 on [1, 2] has made it [1, 8].
C19_Witness ==
    /\ stmt = Assignment(IndexExpr(Var("x"), IndexLit(-1)), "Eq", Lit(8))
    /\ IsList(envs, "x")
    /\ ListOf(envs, heap, "x") = << make_int(1), make_int(8) >>

\* x[2] = 8 on [1, 2] has raised and left the list.
C19_WitnessOutOfRange ==
    /\ stmt = Assignment(IndexExpr(Var("x"), IndexLit(2)), "Eq", Lit(8))
    /\ error = "Index out of range"
    /\ ListOf(envs, heap, "x") = << make_int(1), make_int(2) >>

\* r = x[-2] on [1, 2] has read 1.
C19_WitnessRead ==
    /\ stmt = SetExpr("r", IndexExpr(Var("x"), IndexLit(-2)))
    /\ Binding(envs, "r") = << make_int(1) >>

-----------------------------------------------------------------------------
(* Captured output: set_capture_output, clear_output, get_output over      *)
(* several runs of one interpreter.                                        *)

\* The number of statements that the runs of SpecCapture evaluate in all.
MaxCaptureStmts == 3

\* std::string get_output() const { return output_.str(); }
get_output == output_

\* An interpreter has been constructed and nothing has been run.
InitCapture ==
    /\ Interpreter
    /\ capture_output_ = FALSE
    /\ stmt = NullNode
    /\ pc = 0
    /\ lexer = Lexer(<<>>)
    /\ tokens = <<>>
    /\ program = <<>>
    /\ status = "constructed"
    /\ error = ""
    /\ asts = [count |-> 0, run |-> 0, modules |-> {}]

\* The host calls set_capture_output(capture) between two runs.
set_capture_output ==
    /\ status # "running"
    /\ \E capture \in BOOLEAN : capture_output_' = capture
    /\ UNCHANGED <<envs, heap, module_cache_, output_, cout, stmt, pc, lexer, tokens,
                   program, status, result, error, exec_count, try_entered, finally_runs,
                   asts, use_after_free>>

\* The host calls clear_output() between two runs.
clear_output ==
    /\ status # "running"
    /\ output_' = ""
    /\ UNCHANGED <<envs, heap, module_cache_, capture_output_, cout, stmt, pc, lexer,
                   tokens, program, status, result, error, exec_count, try_entered,
                   finally_runs, asts, use_after_free>>

\* The number of calls of run() on one interpreter.
MaxRuns == 3

\* The host calls run(): exec starts on the statements of a new program.
Run ==
    /\ status \notin {"running", "SIGSEGV"}
    /\ pc < MaxCaptureStmts
    /\ asts.count < MaxRuns
    /\ status' = "running"
    /\ error' = ""
    /\ asts' = [asts EXCEPT !.count = @ + 1, !.run = asts.count + 1]
    /\ UNCHANGED <<envs, heap, module_cache_, output_, capture_output_, cout, stmt, pc,
                   lexer, tokens, program, result, exec_count, try_entered, finally_runs,
                   use_after_free>>

PrintStmt(args) == CallStmt("print", args)
IoPrint == ExpressionStmt(FunctionCall(MemberAccess(Var("io"), "print"),
                                       << StringLiteral("c"), Lit(2) >>))
\* if true:
\*     print("x")
\*     q
PrintThenFail ==
    IfOnly(BoolLiteral(TRUE), << PrintStmt(<< StringLiteral("x") >>), ExpressionStmt(Var("q")) >>)

\* The statements of SpecCapture with the text that each one prints.
CaptureTable ==
    { << PrintStmt(<< StringLiteral("a") >>), "a\n" >>,
      << PrintStmt(<< Lit(1), StringLiteral("b") >>), "1 b\n" >>,
      << PrintStmt(<<>>), "\n" >>,
      << ImportStmt(<< "io" >>), "" >>,
      << IoPrint, "c 2\n" >>,
      << PrintThenFail, "x\n" >> }

CaptureStmts == { c[1] : c \in CaptureTable }

CapturePrint == \E s \in CaptureStmts : StepWithin(s, MaxCaptureStmts)

NextCapture == set_capture_output \/ clear_output \/ Run \/ CapturePrint \/ RunReturn

SpecCapture == InitCapture /\ [][NextCapture]_vars

\* The text that statement s prints in environments es: io.print prints only
\* once io is imported.
Printed(s, es) ==
    IF s = IoPrint /\ Binding(es, "io") = <<>> THEN ""
    ELSE (CHOOSE c \in CaptureTable : c[1] = s)[2]

\* C20: a statement that prints appends its text (the arguments separated by
\* single spaces, then a newline) to the captured output when capture is on,
\* also when the run then fails, and leaves it when capture is off; what
\* get_output returns changes in no other way than by such a statement or by
\* clear_output, which empties it.
C20_CapturedOutput ==
    [][/\ Stepped
          => /\ get_output' = IF capture_output_ THEN get_output \o Printed(stmt', envs)
                                                 ELSE get_output
             /\ stmt' = PrintThenFail => status' = "BoaRuntimeError"
       /\ ~Stepped
          => /\ get_output' \in {get_output, ""}
             /\ capture_output_' # capture_output_ => get_output' = get_output
             /\ status' = "running" => get_output' = get_output
             /\ status # "running" /\ status' = status /\ capture_output_' = capture_output_
                => get_output' = ""
      ]_vars

\* With capture off print("a") went to std::cout; with capture then on, a run
\* printed "x" and failed, and the captured output holds that text.
C20_Witness ==
    /\ status = "BoaRuntimeError"
    /\ stmt = PrintThenFail
    /\ get_output = "x\n"
    /\ cout = "a\n"

\* Two runs with capture on, the first one failing, have both been captured.
C20_WitnessTwoRuns ==
    /\ status = "returned"
    /\ pc = 3
    /\ get_output = "x\nc 2\n"

\* The captured output has been cleared between two prints.
C20_WitnessCleared ==
    /\ pc = 2
    /\ cout = ""
    /\ get_output = "1 b\n"
    /\ stmt = PrintStmt(<< Lit(1), StringLiteral("b") >>)

-----------------------------------------------------------------------------
(* Equality: r = [L == R, R == L, L != R] on values of every type.         *)

\* The number of statements of a program of SpecEq.
MaxEqStmts == 2

\* if true:
\*     l = [1]
\*     d = {}
EqBindStmt ==
    IfOnly(BoolLiteral(TRUE), << SetExpr("l", IntList(<< 1 >>)),
                                 SetExpr("d", DictLiteral(<<>>)) >>)

EqBind == StepWithin(EqBindStmt, MaxEqStmts)

EqOperands ==
    { NoneLiteral, BoolLiteral(TRUE), BoolLiteral(FALSE), Lit(0), Lit(1),
      FloatCall(Lit(1)), NumberLiteralOf(Double(3, 2)), StringLiteral("1"),
      StringLiteral("a"), IntList(<< 1 >>), Var("l"), Var("d") }

EqTriple(L, R) ==
    SetExpr("r", ListLiteral(<< BinaryOp(L, "EqEq", R), BinaryOp(R, "EqEq", L),
                                BinaryOp(L, "BangEq", R) >>))

EqTriples == { EqTriple(L, R) : L, R \in EqOperands }

EqCompare == \E s \in EqTriples : StepWithin(s, MaxEqStmts)

NextEq == EqBind \/ EqCompare \/ RunReturn

SpecEq == Init /\ [][NextEq]_vars

\* The equality of the values a and b as the language defines it.
Equal(a, b) ==
    \/ a.type = "None" /\ b.type = "None"
    \/ a.type = "Bool" /\ b.type = "Bool" /\ a.bool_val = b.bool_val
    \/ a.type = "Int" /\ b.type = "Int" /\ a.int_val = b.int_val
    \/ a.type = "Float" /\ b.type = "Float" /\ a.float_val = b.float_val
    \/ a.type = "Int" /\ b.type = "Float" /\ DoubleOfInt(a.int_val) = b.float_val
    \/ a.type = "Float" /\ b.type = "Int" /\ a.float_val = DoubleOfInt(b.int_val)
    \/ a.type = "String" /\ b.type = "String" /\ a.string_val = b.string_val

IsEqTriple(s) ==
    /\ s.k = "Assignment" /\ s.target = Var("r") /\ s.value.k = "ListLiteral"
    /\ Len(s.value.elements) = 3

\* C21: L == R and R == L have the same value, L != R has the opposite one,
\* and L == R is true exactly for two nones, two equal bools, ints, floats or
\* strings, and an int and a float that are equal once the int is widened; a
\* bool never equals a number, and a list or a dict equals nothing, itself
\* included.
C21_Equality ==
    [][Stepped /\ IsEqTriple(stmt') /\ status' = "running"
       => LET L == stmt'.value.elements[1].left
              R == stmt'.value.elements[1].right
              a == eval(L, GlobalEnv, St).val
              b == eval(R, GlobalEnv, St).val
              r == heap'[Binding(envs', "r")[1].ref].list_val
          IN /\ r = << make_bool(Equal(a, b)), make_bool(Equal(a, b)),
                       make_bool(~Equal(a, b)) >>
             /\ a.type \in {"List", "Dict"} \/ b.type \in {"List", "Dict"}
                => r[1] = make_bool(FALSE)
             /\ a.type = "Bool" /\ IsNumber(b) => r[1] = make_bool(FALSE)
      ]_vars

\* 1 == float(1) is true both ways.
C21_Witness ==
    /\ stmt = EqTriple(Lit(1), FloatCall(Lit(1)))
    /\ heap[Binding(envs, "r")[1].ref].list_val
       = << make_bool(TRUE), make_bool(TRUE), make_bool(FALSE) >>

\* l == l is false for the list l.
C21_WitnessSameList ==
    /\ stmt = EqTriple(Var("l"), Var("l"))
    /\ status = "running"
    /\ heap[Binding(envs, "r")[1].ref].list_val
       = << make_bool(FALSE), make_bool(FALSE), make_bool(TRUE) >>

\* true == 1 is false.
C21_WitnessBoolInt ==
    /\ stmt = EqTriple(BoolLiteral(TRUE), Lit(1))
    /\ heap[Binding(envs, "r")[1].ref].list_val
       = << make_bool(FALSE), make_bool(FALSE), make_bool(TRUE) >>

-----------------------------------------------------------------------------
(* Power: r = L ** R on ints and floats.                                   *)

\* The number of statements of a program of SpecPow.
MaxPowStmts == 2

PowBases ==
    { Lit(0), Lit(1), Lit(2), Lit(3), UnaryOp("Minus", Lit(2)), FloatCall(Lit(2)),
      NumberLiteralOf(Double(3, 2)), UnaryOp("Minus", FloatCall(Lit(2))) }

PowExponents ==
    { Lit(0), Lit(1), Lit(2), Lit(3), Lit(10), UnaryOp("Minus", Lit(1)),
      FloatCall(Lit(2)), FloatCall(Lit(0)) }

PowExpr(L, R) == SetExpr("r", BinaryOp(L, "DoubleStar", R))

PowStmts == { PowExpr(L, R) : L \in PowBases, R \in PowExponents }

PowAssign == \E s \in PowStmts : StepWithin(s, MaxPowStmts)

NextPow == PowAssign \/ RunReturn

SpecPow == Init /\ [][NextPow]_vars

IsPow(s) == s.k = "Assignment" /\ s.value.k = "BinaryOp" /\ s.value.op = "DoubleStar"

PowLeft == eval(stmt'.value.left, GlobalEnv, St).val
PowRight == eval(stmt'.value.right, GlobalEnv, St).val
PowResult == Binding(envs', "r")[1]

C22_WitnessTen ==
    /\ stmt = PowExpr(Lit(2), Lit(10))
    /\ Binding(envs, "r") = << make_int(1024) >>

\* r = 2 ** -1 has bound r to the Float 0.5.
C22_WitnessNegativeExponent ==
    /\ stmt = PowExpr(Lit(2), UnaryOp("Minus", Lit(1)))
    /\ Binding(envs, "r") = << make_float(Double(1, 2)) >>

-----------------------------------------------------------------------------
(* The REPL: run_repl constructs one interpreter and calls run() once per  *)
(* line.  The lines define functions, import the module m (which defines   *)
(* g), call f and g, and execute ret at top level.                         *)

\* The number of statements executed by the runs of a session of SpecRepl.
MaxReplStmts == 3

\* fn f(): ret 7        f()        imp m        g()
ReplFnDefStmt == FnDef("f", <<>>, << ReturnStmt(Lit(7)) >>)
ReplCallStmt == CallStmt("f", <<>>)
ReplImportStmt == Imp(<< "m" >>)
ReplModuleCallStmt == CallStmt("g", <<>>)
\* ret 5        ret
ReplReturns == { ReturnStmt(Lit(5)), ReturnStmt(NullNode) }

ReplFnDef == StepWithin(ReplFnDefStmt, MaxReplStmts)
ReplCall == StepWithin(ReplCallStmt, MaxReplStmts)
ReplImport == StepWithin(ReplImportStmt, MaxReplStmts)
ReplModuleCall == StepWithin(ReplModuleCallStmt, MaxReplStmts)
ReplReturn == \E s \in ReplReturns : StepWithin(s, MaxReplStmts)

NextRepl ==
    \/ Run
    \/ RunReturn
    \/ ReplFnDef
    \/ ReplCall
    \/ ReplImport
    \/ ReplModuleCall
    \/ ReplReturn

SpecRepl == InitCapture /\ [][NextRepl]_vars

\* The Program that owns the body of the function value v has not been
\* destroyed: it is the Program of the run() in progress or is in module_asts_.
BodyAlive(v) == v.func_val.ast = asts.run \/ v.func_val.ast \in asts.modules

\* C23: for any sequence of run calls on one interpreter, every Function
\* value bound in the global environment refers to a body whose AST nodes are
\* still alive, and a call never executes the nodes of a destroyed Program.
C23_BodiesAlive ==
    /\ \A name \in DOMAIN envs[GlobalEnv].vars :
           envs[GlobalEnv].vars[name].type = "Function"
               => BodyAlive(envs[GlobalEnv].vars[name])
    /\ ~use_after_free

\* C23, the part that holds: the function g that the import of m defined is
\* called by a later run and executes its body in a Program kept alive.
C23_ModuleBodiesAlive ==
    [][Stepped /\ stmt' = ReplModuleCallStmt /\ Binding(envs, "m") # <<>>
           => /\ BodyAlive(Binding(envs, "g")[1])
              /\ use_after_free' = use_after_free
              /\ status' = "running"
              /\ result' = make_int(1)]_vars

\* C24: run returns a value or fails with LexerError, ParseError or
\* RuntimeError; the signals return, break and continue never leave run.
C24_NoSignalEscapes ==
    status \notin {"ReturnException", "BreakException", "ContinueException"}

-----------------------------------------------------------------------------
(* Function definitions: fn h at top level and in the body of a function,  *)
(* with h unbound, bound in the global environment, or bound in the        *)
(* environment of an enclosing call.                                       *)

\* The number of statements of a program of SpecFnDef.
MaxFnDefStmts == 3

\* fn h(): ret N
FnDefH(N) == FnDef("h", <<>>, << ReturnStmt(Lit(N)) >>)
\* h = 1        fn h(): ret 2
FnDefGlobals == { SetStmt("h", 1), FnDefH(2) }
\* fn outer():
\*     fn h(): ret 3
\*     ret h()
FnDefOuterStmt ==
    FnDef("outer", <<>>, << FnDefH(3), ReturnStmt(FunctionCall(Var("h"), <<>>)) >>)
\* fn b():
\*     fn h(): ret 4
FnDefB == FnDef("b", <<>>, << FnDefH(4) >>)
\* fn a(h):
\*     fn b(): ...
\*     b()
FnDefAStmt == FnDef("a", << "h" >>, << FnDefB, CallStmt("b", <<>>) >>)
FnDefOuterCallStmt == CallStmt("outer", <<>>)
FnDefACallStmt == CallStmt("a", << Lit(0) >>)

FnDefGlobal == \E s \in FnDefGlobals : StepWithin(s, MaxFnDefStmts)
FnDefOuter == StepWithin(FnDefOuterStmt, MaxFnDefStmts)
FnDefA == StepWithin(FnDefAStmt, MaxFnDefStmts)
FnDefOuterCall == StepWithin(FnDefOuterCallStmt, MaxFnDefStmts)
FnDefACall == StepWithin(FnDefACallStmt, MaxFnDefStmts)

NextFnDef ==
    \/ FnDefGlobal
    \/ FnDefOuter
    \/ FnDefA
    \/ FnDefOuterCall
    \/ FnDefACall
    \/ RunReturn

SpecFnDef == Init /\ [][NextFnDef]_vars

\* v is the Function that evaluating the FnDef n in environment e makes.
IsFunctionOf(v, n, e) ==
    /\ v.type = "Function"
    /\ v.func_val.name = n.name
    /\ v.func_val.params = n.params
    /\ v.func_val.body = n.body
    /\ v.func_val.closure = e

\* The environments after fn n is evaluated in environment e of es: the
\* binding of e itself is created or replaced, whatever e's ancestors bind.
DefinedIn(es, e, n) ==
    Environment_define(es, e, n.name,
                       [make_function(n.name, n.params, n.body, e)
                            EXCEPT !.func_val.ast = asts.run])

\* The global outer (a) is the function of FnDefOuterStmt (FnDefAStmt).
OuterDefined == /\ Binding(envs, "outer") # <<>>
                /\ IsFunctionOf(Binding(envs, "outer")[1], FnDefOuterStmt, GlobalEnv)
ADefined == /\ Binding(envs, "a") # <<>>
            /\ IsFunctionOf(Binding(envs, "a")[1], FnDefAStmt, GlobalEnv)

\* C25 as stated: fn h evaluated in the environment E of a call of outer,
\* while the global environment binds h, replaces the global binding of h
\* and creates no binding in E.
C25_FnDefScopeWalk ==
    [][Stepped /\ stmt' = FnDefOuterCallStmt /\ OuterDefined /\ Binding(envs, "h") # <<>>
           => /\ IsFunctionOf(Binding(envs', "h")[1], FnDefH(3), Len(envs) + 1)
              /\ "h" \notin DOMAIN envs'[Len(envs) + 1].vars]_vars

\* C25, amended: evaluating fn name in environment E binds the new function
\* under name in E itself, creating E's binding or replacing it; a binding of
\* name in an ancestor of E (a global, a parameter of an enclosing call) is
\* left as it is.
C25_FnDefDefines ==
    [][Stepped =>
        /\ stmt'.k = "FnDef" => envs' = DefinedIn(envs, GlobalEnv, stmt')
        /\ stmt' = FnDefOuterCallStmt /\ OuterDefined
               => envs' = Append(DefinedIn(Append(envs, Environment(GlobalEnv)),
                                           Len(envs) + 1, FnDefH(3)),
                                 Environment(Len(envs) + 1))
        /\ stmt' = FnDefACallStmt /\ ADefined
               => envs' = DefinedIn(
                              Append(DefinedIn(
                                         Append(envs, [vars |-> "h" :> make_int(0),
                                                       parent |-> GlobalEnv]),
                                         Len(envs) + 1, FnDefB),
                                     Environment(Len(envs) + 1)),
                              Len(envs) + 2, FnDefH(4))]_vars

\* After h = 1 ; fn outer ; outer() the global h is still 1 and the
\* environment of outer's call binds the function h, which the call returned
\* the value of.
C25_Witness ==
    /\ stmt = FnDefOuterCallStmt
    /\ status = "running"
    /\ result = make_int(3)
    /\ Binding(envs, "h") = << make_int(1) >>
    /\ IsFunctionOf(envs[Len(envs) - 1].vars["h"], FnDefH(3), Len(envs) - 1)

\* After fn a ; a(0) the parameter h of a's call is still 0 and the
\* environment of b's call binds the function h.
C25_WitnessParameter ==
    /\ stmt = FnDefACallStmt
    /\ status = "running"
    /\ Len(envs) = 3
    /\ envs[2].vars["h"] = make_int(0)
    /\ IsFunctionOf(envs[3].vars["h"], FnDefH(4), 3)

\* After h = 1 ; fn h(): ret 2 at top level the global h is the function.
C25_WitnessReplaced ==
    /\ stmt = FnDefH(2)
    /\ pc = 2
    /\ IsFunctionOf(Binding(envs, "h")[1], FnDefH(2), GlobalEnv)

-----------------------------------------------------------------------------
(* Compound assignment: programs that bind x, the list l and the dict d    *)
(* and then execute T op= V for the targets x, y (never bound), l[0],      *)
(* l[5], d["k"] and d["z"].                                                *)

\* The number of statements of a program of SpecCompound.
MaxCompoundStmts == 3

\* if true:
\*     x = 6
\*     l = [6, 3]
\*     d = {"k": 6}
CompoundBindStmt ==
    IfOnly(BoolLiteral(TRUE),
           << SetStmt("x", 6), SetExpr("l", IntList(<< 6, 3 >>)),
              SetExpr("d", DictLiteral(<< << StringLiteral("k"), Lit(6) >> >>)) >>)

CompoundOps == {"PlusEq", "MinusEq", "StarEq", "SlashEq"}
CompoundTargets ==
    { Var("x"), Var("y"), IndexExpr(Var("l"), Lit(0)), IndexExpr(Var("l"), Lit(5)),
      IndexExpr(Var("d"), StringLiteral("k")), IndexExpr(Var("d"), StringLiteral("z")) }
CompoundStmts ==
    { Assignment(T, op, V) : T \in CompoundTargets, op \in CompoundOps,
                             V \in { Lit(2), Lit(0) } }

CompoundBind == StepWithin(CompoundBindStmt, MaxCompoundStmts)
CompoundAssign == \E s \in CompoundStmts : StepWithin(s, MaxCompoundStmts)

NextCompound == CompoundBind \/ CompoundAssign \/ RunReturn

SpecCompound == Init /\ [][NextCompound]_vars

\* The binary operator that the compound operator op combines with.
BinaryOf(op) ==
    CASE op = "PlusEq" -> "Plus" [] op = "MinusEq" -> "Minus"
      [] op = "StarEq" -> "Star" [] op = "SlashEq" -> "Slash"

\* The value of the literal e.
LiteralValue(e) == eval(e, GlobalEnv, St).val

\* What the target T holds in environments es and heap h: << value >>, or
\* <<>> when the name is unbound, the index out of range or the key absent.
Held(es, h, T) ==
    IF T.k = "Identifier" THEN Binding(es, T.name)
    ELSE IF Binding(es, T.object.name) = <<>> THEN <<>>
    ELSE IF Binding(es, T.object.name)[1].type = "List"
    THEN IF LiteralValue(T.index).int_val < Len(ListOf(es, h, T.object.name))
         THEN << ListOf(es, h, T.object.name)[LiteralValue(T.index).int_val + 1] >>
         ELSE <<>>
    ELSE IF dict_find(h[Binding(es, T.object.name)[1].ref].dict_val,
                      LiteralValue(T.index)) # 0
    THEN << h[Binding(es, T.object.name)[1].ref].dict_val[
                dict_find(h[Binding(es, T.object.name)[1].ref].dict_val,
                          LiteralValue(T.index))][2] >>
    ELSE <<>>

\* old op v, the value that s must store.
Combined(s, old) == apply_binary(BinaryOf(s.op), St, old, LiteralValue(s.value))

\* The step executes the compound assignment s as the rule says: it raises,
\* changing nothing, when the target holds nothing or the operator raises, and
\* otherwise the target holds old op v.
CompoundStored(s) ==
    IF Held(envs, heap, s.target) = <<>>
          \/ Combined(s, Held(envs, heap, s.target)[1]).sig # "ok"
    THEN status' = "BoaRuntimeError" /\ envs' = envs /\ heap' = heap
    ELSE /\ status' = "running"
         /\ Held(envs', heap', s.target) = << Combined(s, Held(envs, heap, s.target)[1]).val >>

IsCompound(s) == s.k = "Assignment" /\ s.op # "Eq"

\* C26: a compound assignment combines the old value with the right-hand
\* side for every kind of target: name op= v stores name op v and raises,
\* binding nothing, when name is undefined; obj[k] op= v on a list or dict
\* stores obj[k] op v at k and raises when obj[k] does not exist; it never
\* stores v alone.
C26_CompoundAssignment ==
    [][Stepped /\ IsCompound(stmt') /\ Binding(envs, "x") # <<>>
           => CompoundStored(stmt')]_vars

\* C26, the half that holds: on a name target the compound assignment stores
\* name op v, and raises, binding nothing, when the name is undefined.
C26_CompoundName ==
    [][Stepped /\ IsCompound(stmt') /\ stmt'.target.k = "Identifier"
           => CompoundStored(stmt')]_vars

-----------------------------------------------------------------------------
(* Dicts: programs that bind the dict d (empty, or the literal with the    *)
(* key "a" twice), the list l and the dict e, and then write d[K] = V and  *)
(* read r = d[K] for keys K of every type.                                 *)

\* The number of statements of a program of SpecDict.
MaxDictStmts == 4

\* if true:
\*     d = {}        (d = {"a": 1, 1: 2, "a": 3})
\*     l = [1]
\*     e = {}
DictBindWith(entries) ==
    IfOnly(BoolLiteral(TRUE), << SetExpr("d", DictLiteral(entries)),
                                 SetExpr("l", IntList(<< 1 >>)),
                                 SetExpr("e", DictLiteral(<<>>)) >>)
DictBinds ==
    { DictBindWith(<<>>),
      DictBindWith(<< << StringLiteral("a"), Lit(1) >>, << Lit(1), Lit(2) >>,
                      << StringLiteral("a"), Lit(3) >> >>) }

DictKeys ==
    { NoneLiteral, BoolLiteral(TRUE), Lit(1), FloatCall(Lit(1)), StringLiteral("a"),
      Var("l"), Var("e") }
DictWrites == { Assignment(IndexExpr(Var("d"), K), "Eq", Lit(v)) : K \in DictKeys, v \in {7, 8} }
DictReads == { SetExpr("r", IndexExpr(Var("d"), K)) : K \in DictKeys }

DictBind == pc = 0 /\ \E s \in DictBinds : StepWithin(s, MaxDictStmts)
DictWrite == \E s \in DictWrites : StepWithin(s, MaxDictStmts)
DictRead == \E s \in DictReads : StepWithin(s, MaxDictStmts)

NextDict == DictBind \/ DictWrite \/ DictRead \/ RunReturn

SpecDict == Init /\ [][NextDict]_vars

IsDict(es, name) == Binding(es, name) # <<>> /\ Binding(es, name)[1].type = "Dict"
DictOf(es, h, name) == h[Binding(es, name)[1].ref].dict_val

IsDictWrite(s) == s.k = "Assignment" /\ s.target.k = "IndexExpr"
IsDictRead(s) == s.k = "Assignment" /\ s.target.k = "Identifier" /\ s.value.k = "IndexExpr"

\* The value of the key expression K (a literal, float(1) or a variable).
KeyValue(K) == eval(K, GlobalEnv, St).val

\* The keys that == compares: none, bools, numbers and strings.
Comparable(v) == v.type \in {"None", "Bool", "Int", "Float", "String"}

\* The entries whose key equals k, and the first of them.
Matches(entries, k) == { j \in DOMAIN entries : Equal(entries[j][1], k) }
FirstMatch(entries, k) ==
    CHOOSE j \in Matches(entries, k) : \A m \in Matches(entries, k) : j <= m

\* The step wrote d[K] = V, and in the state it leads to the read d[K]
\* returns V and a second d[K] = V leaves the number of entries of d as it is.
WriteThenRead(s) ==
    /\ eval(s.target, GlobalEnv, St').sig = "ok"
    /\ eval(s.target, GlobalEnv, St').val = KeyValue(s.value)
    /\ Len(eval(s, GlobalEnv, St').st.heap[Binding(envs, "d")[1].ref].dict_val)
       = Len(DictOf(envs', heap', "d"))

C27_WitnessListKey ==
    /\ stmt = Assignment(IndexExpr(Var("d"), Var("l")), "Eq", Lit(7))
    /\ status = "running"
    /\ Len(DictOf(envs, heap, "d")) = 2
    /\ DictOf(envs, heap, "d")[1] = DictOf(envs, heap, "d")[2]
    /\ DictOf(envs, heap, "d")[1][1] = Binding(envs, "l")[1]

\* After d = {} ; d[1] = 7 ; d[float(1)] = 8 the dict has the one entry 1: 8.
C27_WitnessWidened ==
    /\ stmt = Assignment(IndexExpr(Var("d"), FloatCall(Lit(1))), "Eq", Lit(8))
    /\ status = "running"
    /\ DictOf(envs, heap, "d") = << << make_int(1), make_int(8) >> >>

\* C29: d[k] = v replaces the value of the first entry whose key equals k
\* and otherwise appends the pair (k, v) at the end, never removing or
\* reordering entries; d[k] returns the value of the first entry whose key
\* equals k and raises RuntimeError "Key not found in dict" when no key
\* equals k, leaving d unchanged.
C29_DictEntries ==
    [][Stepped /\ IsDict(envs, "d") =>
        LET entries == DictOf(envs, heap, "d")
            ref == Binding(envs, "d")[1].ref
        IN /\ IsDictWrite(stmt') =>
                /\ status' = "running"
                /\ Len(heap') = Len(heap)
                /\ \A c \in DOMAIN heap : c # ref => heap'[c] = heap[c]
                /\ heap'[ref].dict_val
                   = IF Matches(entries, KeyValue(stmt'.target.index)) # {}
                     THEN [entries EXCEPT
                              ![FirstMatch(entries, KeyValue(stmt'.target.index))][2] =
                                  KeyValue(stmt'.value)]
                     ELSE Append(entries, << KeyValue(stmt'.target.index),
                                             KeyValue(stmt'.value) >>)
           /\ IsDictRead(stmt') =>
                /\ heap' = heap
                /\ IF Matches(entries, KeyValue(stmt'.value.index)) # {}
                   THEN /\ status' = "running"
                        /\ Binding(envs', "r")
                           = << entries[FirstMatch(entries,
                                                   KeyValue(stmt'.value.index))][2] >>
                   ELSE /\ status' = "BoaRuntimeError"
                        /\ error' = "Key not found in dict"
                        /\ envs' = envs]_vars

\* After d = {"a": 1, 1: 2, "a": 3} ; d["a"] = 7 the first entry holds 7 and
\* the order and the third entry are as they were.
C29_Witness ==
    /\ stmt = Assignment(IndexExpr(Var("d"), StringLiteral("a")), "Eq", Lit(7))
    /\ pc = 2
    /\ status = "running"
    /\ DictOf(envs, heap, "d") = << << make_string("a"), make_int(7) >>,
                                    << make_int(1), make_int(2) >>,
                                    << make_string("a"), make_int(3) >> >>

\* After d = {} ; d["a"] = 7 ; d[none] = 8 the entries are in insertion order.
C29_WitnessAppended ==
    /\ stmt = Assignment(IndexExpr(Var("d"), NoneLiteral), "Eq", Lit(8))
    /\ status = "running"
    /\ DictOf(envs, heap, "d") = << << make_string("a"), make_int(7) >>,
                                    << make_none, make_int(8) >> >>

\* After d = {} ; r = d["a"] the run has failed with "Key not found in dict".
C29_WitnessMissing ==
    /\ stmt = SetExpr("r", IndexExpr(Var("d"), StringLiteral("a")))
    /\ status = "BoaRuntimeError"
    /\ error = "Key not found in dict"
    /\ DictOf(envs, heap, "d") = <<>>

-----------------------------------------------------------------------------
(* Cyclic imports: programs that import the modules a and b, which import  *)
(* each other, the module s, which imports itself, and the module m.       *)

\* The number of statements of a program of SpecCycle.
MaxCycleStmts == 3

\* imp a        imp b        imp s        imp m        imp m, a
CycleImports ==
    { Imp(mods) : mods \in { <<"a">>, <<"b">>, <<"s">>, <<"m">>, <<"m", "a">> } }
\* try: imp a  except: pass
CycleGuardStmt == TryStmt(<< Imp(<< "a" >>) >>, "", << PassStmt >>, <<>>)
\* ca = 0        cb = 0
CycleAssigns == { SetStmt("ca", 0), SetStmt("cb", 0), SetStmt("cc", 0) }

CycleImport == \E s \in CycleImports : StepWithin(s, MaxCycleStmts)
CycleGuarded == StepWithin(CycleGuardStmt, MaxCycleStmts)
CycleAssign == \E s \in CycleAssigns : StepWithin(s, MaxCycleStmts)

NextCycle == CycleImport \/ CycleGuarded \/ CycleAssign \/ RunReturn

SpecCycle == Init /\ [][NextCycle]_vars

\* C28: importing terminates and executes each user module's top level at
\* most once even when modules import each other cyclically: the inner imp a
\* reached while a is still loading does not start loading a again, so no
\* module is executed twice and the nesting of loads does not grow until the
\* stack is exhausted.
C28_CyclicImports ==
    /\ \A mod \in UserModules : exec_count[mod] <= 1
    /\ status # "SIGSEGV"

-----------------------------------------------------------------------------
(* Expressions: the parser on the token vectors of the lines                *)
(*     P a  op  P b  op  P c ...                                            *)
(* of up to MaxOperands operands, each behind a prefix P (nothing, -, not, *)
(* not -) and joined by the binary operators of every level.               *)

\* The number of operands of an expression of SpecParse.
MaxOperands == 3

OperandNames == << "a", "b", "c", "d", "e" >>
Prefixes == { <<>>, << "Minus" >>, << "Not" >> }
BinaryOps == {"Or", "And", "EqEq", "Less", "Plus", "Minus", "Star", "DoubleStar"}

\* The words (operator token types and operand names) of the expressions of
\* n operands.
RECURSIVE ExprWords(_)
ExprWords(n) ==
    IF n = 1 THEN { P \o << OperandNames[1] >> : P \in Prefixes }
    ELSE { e \o << op >> \o P \o << OperandNames[n] >> :
               e \in ExprWords(n - 1), op \in BinaryOps, P \in Prefixes }

\* The lexeme of an operator token type.
Lexeme(t) ==
    CASE t = "Or" -> "or" [] t = "And" -> "and" [] t = "Not" -> "not"
      [] t = "EqEq" -> "==" [] t = "Less" -> "<" [] t = "Plus" -> "+"
      [] t = "Minus" -> "-" [] t = "Star" -> "*" [] t = "DoubleStar" -> "**"

\* The token of the word w.
WordToken(w) ==
    IF w \in BinaryOps \cup {"Not"} THEN Token(w, Lexeme(w)) ELSE Token("Identifier", w)

\* The token vector that the lexer makes of the line of the words ws.
LineTokens(ws) == [i \in 1..Len(ws) |-> WordToken(ws[i])] \o << Token("Eof", "") >>

\* The lines of at most max operands.
ParseLines(max) == { LineTokens(ws) : ws \in UNION { ExprWords(n) : n \in 1..max } }

\* run() has lexed a line and constructed the Parser of its tokens.
InitParse ==
    /\ Interpreter
    /\ capture_output_ = TRUE
    /\ asts = [count |-> 0, run |-> 0, modules |-> {}]
    /\ stmt = NullNode
    /\ pc = 0
    /\ lexer = Lexer(<<>>)
    /\ tokens \in ParseLines(MaxOperands)
    /\ program = <<>>
    /\ status = "parsing"
    /\ error = ""

NextParse == Parse

SpecParse == InitParse /\ [][NextParse]_vars

\* The words of the line.
LineWords(toks) ==
    [i \in 1..(Len(toks) - 1) |->
        IF toks[i].type = "Identifier" THEN toks[i].value ELSE toks[i].type]

\* The level of the precedence table that the root of the tree e belongs to:
\* or < and < not < comparison < add < mul < unary +/- < ** < postfix.
Level(e) ==
    IF e.k = "BinaryOp"
    THEN CASE e.op = "Or" -> 1
           [] e.op = "And" -> 2
           [] e.op \in {"EqEq", "BangEq", "Less", "LessEq", "Greater", "GreaterEq"} -> 4
           [] e.op \in {"Plus", "Minus"} -> 5
           [] e.op \in {"Star", "Slash", "Percent"} -> 6
           [] e.op = "DoubleStar" -> 8
    ELSE IF e.k = "UnaryOp" THEN (IF e.op = "Not" THEN 3 ELSE 7)
    ELSE 9

\* The words of the tree e, read from left to right.
RECURSIVE Yield(_)
Yield(e) ==
    IF e.k = "BinaryOp" THEN Yield(e.left) \o << e.op >> \o Yield(e.right)
    ELSE IF e.k = "UnaryOp" THEN << e.op >> \o Yield(e.operand)
    ELSE << e.name >>

\* The tree e is built according to the table: an operator of a level that
\* associates to the left has a left operand of its level or a higher one
\* and a right operand of a higher level; ** has a postfix expression as its
\* base and, associating to the right, a unary expression or a power as its
\* exponent; a prefix operator has an operand of its level or a higher one.
RECURSIVE ByPrecedence(_)
ByPrecedence(e) ==
    IF e.k = "BinaryOp"
    THEN /\ ByPrecedence(e.left)
         /\ ByPrecedence(e.right)
         /\ IF e.op = "DoubleStar"
            THEN Level(e.left) > 8 /\ Level(e.right) >= 7
            ELSE Level(e.left) >= Level(e) /\ Level(e.right) > Level(e)
    ELSE IF e.k = "UnaryOp"
    THEN ByPrecedence(e.operand) /\ Level(e.operand) >= Level(e)
    ELSE TRUE

\* A line of SpecParse is an expression of the grammar unless a not stands
\* where an operand of a level above not is expected: anywhere but at the
\* start or behind and, or, not.
IsExpression(ws) ==
    \A i \in 2..Len(ws) : ws[i] = "Not" => ws[i - 1] \in {"And", "Or", "Not"}

\* C30: the parser builds expression trees according to the precedence
\* table (or < and < not < comparison < add < mul < unary +/- < ** <
\* postfix): the binary operators of one level associate to the left, except
\* **, which associates to the right.  Every line that is an expression is
\* parsed into the expression statement of a tree that has the line's words
\* in their order and is built by the table, and no other line is parsed.
C30_Precedence ==
    status # "parsing" =>
        /\ status = (IF IsExpression(LineWords(tokens)) THEN "parsed" ELSE "ParseError")
        /\ status = "parsed" =>
              /\ Len(program) = 1
              /\ program[1].k = "ExpressionStmt"
              /\ Yield(program[1].expr) = LineWords(tokens)
              /\ ByPrecedence(program[1].expr)

\* The tree of the statement that the line of the words ws has been parsed to.
ParsedTo(ws, e) ==
    status = "parsed" /\ tokens = LineTokens(ws) /\ program = << ExpressionStmt(e) >>

\* a + b * c is a + (b * c).
C30_Witness ==
    ParsedTo(<< "a", "Plus", "b", "Star", "c" >>,
             BinaryOp(Var("a"), "Plus", BinaryOp(Var("b"), "Star", Var("c"))))

\* a - b - c is (a - b) - c.
C30_WitnessLeft ==
    ParsedTo(<< "a", "Minus", "b", "Minus", "c" >>,
             BinaryOp(BinaryOp(Var("a"), "Minus", Var("b")), "Minus", Var("c")))

\* a < b < c is (a < b) < c.
C30_WitnessChained ==
    ParsedTo(<< "a", "Less", "b", "Less", "c" >>,
             BinaryOp(BinaryOp(Var("a"), "Less", Var("b")), "Less", Var("c")))

\* a ** b ** c is a ** (b ** c).
C30_WitnessRight ==
    ParsedTo(<< "a", "DoubleStar", "b", "DoubleStar", "c" >>,
             BinaryOp(Var("a"), "DoubleStar", BinaryOp(Var("b"), "DoubleStar", Var("c"))))

\* -a ** b is -(a ** b).
C30_WitnessMinus ==
    ParsedTo(<< "Minus", "a", "DoubleStar", "b" >>,
             UnaryOp("Minus", BinaryOp(Var("a"), "DoubleStar", Var("b"))))

\* not a == b is not (a == b).
C30_WitnessNot ==
    ParsedTo(<< "Not", "a", "EqEq", "b" >>,
             UnaryOp("Not", BinaryOp(Var("a"), "EqEq", Var("b"))))

\* a == not b is not an expression: the parser raises a ParseError.
C30_WitnessNoOperand ==
    /\ status = "ParseError"
    /\ tokens = LineTokens(<< "a", "EqEq", "Not", "b" >>)
    /\ error = "unexpected token Not 'not'"

=============================================================================
